---- MODULE Spec2Model ----
(***************************************************************************)
(* Model of the Composio Tool Router client (src/src/client.ts): the       *)
(* policy functions, the session cache, the account resolver and the       *)
(* executeTool state machine, with the remote broker as the environment.   *)
(*                                                                         *)
(* A JavaScript string is a sequence of one-character strings, so that     *)
(* trim, case conversion, split, includes and startsWith are computed and  *)
(* not assumed.  undefined and the empty array are both the empty          *)
(* sequence where the code treats them alike (x && x.length > 0).  The     *)
(* backquote character, which a TLA+ string cannot hold, is "backtick";    *)
(* the white space characters it cannot hold are named at IsSpace.         *)
(***************************************************************************)
EXTENDS Integers, Sequences, FiniteSets, TLC

VARIABLES
    config,        \* ComposioClient.config after the constructor's normalisation
    accounts,      \* the broker's connected accounts, in creation order
    sessionCache,  \* ComposioClient.sessionCache: cache key -> session
    nextSession,   \* the broker's count of routing sessions created so far
    proc,          \* per request in flight: position, request, locals, calls, result
    nOps,          \* number of client operations started
    hist,          \* per cache key: session creations since its last eviction
    polToolkit,    \* policy check: the toolkit argument
    polSlug,       \* policy check: the tool slug argument
    polOut,        \* pure functions applied: the results computed so far
    hintIn,        \* hinted retry: the arguments and error texts it is given
    tool           \* agent-facing tool call: parameters, client calls, response

polVars == <<polToolkit, polSlug, polOut, hintIn, tool>>
clientVars == <<accounts, sessionCache, nextSession, proc, nOps, hist>>
vars == <<config, accounts, sessionCache, nextSession, proc, nOps, hist,
          polToolkit, polSlug, polOut, hintIn, tool>>

-----------------------------------------------------------------------------
(* String primitives of the JavaScript runtime used by the client.         *)

Lowers == <<"a","b","c","d","e","f","g","h","i","j","k","l","m","n","o","p","q","r","s","t","u","v","w","x","y","z">>
Uppers == <<"A","B","C","D","E","F","G","H","I","J","K","L","M","N","O","P","Q","R","S","T","U","V","W","X","Y","Z">>

\* String.prototype.toLowerCase on one character.
ToLowerChar(c) ==
    IF \E i \in DOMAIN Uppers : Uppers[i] = c
    THEN Lowers[CHOOSE i \in DOMAIN Uppers : Uppers[i] = c]
    ELSE c

\* String.prototype.toUpperCase on one character.
ToUpperChar(c) ==
    IF \E i \in DOMAIN Lowers : Lowers[i] = c
    THEN Uppers[CHOOSE i \in DOMAIN Lowers : Lowers[i] = c]
    ELSE c

ToLowerCase(s) == [i \in DOMAIN s |-> ToLowerChar(s[i])]
ToUpperCase(s) == [i \in DOMAIN s |-> ToUpperChar(s[i])]

\* The characters String.prototype.trim and the regexp class \s take as space
\* (ECMAScript WhiteSpace and LineTerminator). A character no string of this
\* module can hold goes by its name: "vtab" is U+000B, "nbsp" U+00A0, "bom"
\* U+FEFF and "uXXXX" the Unicode space of that code.
IsSpace(c) ==
    c \in { " ", "\t", "\n", "\r", "\f", "vtab", "nbsp", "bom",
            "u1680", "u2000", "u2001", "u2002", "u2003", "u2004", "u2005",
            "u2006", "u2007", "u2008", "u2009", "u200a", "u2028", "u2029",
            "u202f", "u205f", "u3000" }

RECURSIVE TrimStart(_)
TrimStart(s) == IF s = <<>> \/ ~IsSpace(Head(s)) THEN s ELSE TrimStart(Tail(s))

RECURSIVE TrimEnd(_)
TrimEnd(s) ==
    IF s = <<>> \/ ~IsSpace(s[Len(s)]) THEN s ELSE TrimEnd(SubSeq(s, 1, Len(s) - 1))

\* String.prototype.trim
Trim(s) == TrimEnd(TrimStart(s))

\* String.prototype.startsWith
StartsWith(s, prefix) ==
    Len(prefix) <= Len(s) /\ SubSeq(s, 1, Len(prefix)) = prefix

\* String.prototype.includes
StrIncludes(s, part) ==
    \E i \in 1..(Len(s) - Len(part) + 1) : SubSeq(s, i, i + Len(part) - 1) = part

\* String.prototype.split with a one-character separator: always at least
\* one piece, empty pieces kept.
RECURSIVE SplitFrom(_, _, _)
SplitFrom(s, sep, cur) ==
    IF s = <<>> THEN <<cur>>
    ELSE IF Head(s) = sep THEN <<cur>> \o SplitFrom(Tail(s), sep, <<>>)
    ELSE SplitFrom(Tail(s), sep, Append(cur, Head(s)))

Split(s, sep) == SplitFrom(s, sep, <<>>)

\* Array.prototype.includes
Includes(arr, x) == \E i \in DOMAIN arr : arr[i] = x

\* Array.prototype.filter(Boolean) on an array of strings.
RECURSIVE FilterNonEmpty(_)
FilterNonEmpty(arr) ==
    IF arr = <<>> THEN <<>>
    ELSE IF Head(arr) = <<>> THEN FilterNonEmpty(Tail(arr))
    ELSE <<Head(arr)>> \o FilterNonEmpty(Tail(arr))

\* Array.from(new Set(arr)): first occurrences, in order.
RECURSIVE Dedup(_)
Dedup(arr) ==
    IF arr = <<>> THEN <<>>
    ELSE LET init == Dedup(SubSeq(arr, 1, Len(arr) - 1))
             last == arr[Len(arr)]
         IN IF Includes(init, last) THEN init ELSE Append(init, last)

\* Array.prototype.join
RECURSIVE Join(_, _)
Join(arr, sep) ==
    IF arr = <<>> THEN <<>>
    ELSE IF Len(arr) = 1 THEN arr[1]
    ELSE arr[1] \o sep \o Join(Tail(arr), sep)

-----------------------------------------------------------------------------
(* Normalisation (src/src/config.ts).                                      *)

\* A plausible slip: the slug is lower-cased and not trimmed.
normalizeToolkitSlugUntrimmed(value) == ToLowerCase(value)

normalizeToolkitSlug(value) == ToLowerCase(Trim(value))

normalizeToolSlug(value) == ToUpperCase(Trim(value))

normalizeToolkitList(values) ==
    Dedup(FilterNonEmpty([i \in DOMAIN values |-> normalizeToolkitSlug(values[i])]))

normalizeToolSlugList(values) ==
    Dedup(FilterNonEmpty([i \in DOMAIN values |-> normalizeToolSlug(values[i])]))

SESSION_TAGS == { <<"r","e","a","d","O","n","l","y","H","i","n","t">>, <<"d","e","s","t","r","u","c","t","i","v","e","H","i","n","t">>, <<"i","d","e","m","p","o","t","e","n","t","H","i","n","t">>, <<"o","p","e","n","W","o","r","l","d","H","i","n","t">> }

RECURSIVE FilterSessionTags(_)
FilterSessionTags(arr) ==
    IF arr = <<>> THEN <<>>
    ELSE IF Head(arr) \in SESSION_TAGS THEN <<Head(arr)>> \o FilterSessionTags(Tail(arr))
    ELSE FilterSessionTags(Tail(arr))

normalizeSessionTags(values) ==
    Dedup(FilterSessionTags([i \in DOMAIN values |-> Trim(values[i])]))

\* The constructor: every list of the raw configuration is normalised once.
NewClientConfig(raw) ==
    [ allowedToolkits  |-> normalizeToolkitList(raw.allowedToolkits),
      blockedToolkits  |-> normalizeToolkitList(raw.blockedToolkits),
      allowedToolSlugs |-> normalizeToolSlugList(raw.allowedToolSlugs),
      blockedToolSlugs |-> normalizeToolSlugList(raw.blockedToolSlugs),
      sessionTags      |-> normalizeSessionTags(raw.sessionTags),
      readOnlyMode     |-> raw.readOnlyMode,
      defaultUserId    |-> raw.defaultUserId ]

-----------------------------------------------------------------------------
(* Policy engine.                                                          *)

DESTRUCTIVE_TOOL_VERBS ==
    { <<"C","R","E","A","T","E">>, <<"D","E","L","E","T","E">>, <<"D","E","S","T","R","O","Y">>, <<"D","I","S","A","B","L","E">>, <<"D","I","S","C","O","N","N","E","C","T">>, <<"E","R","A","S","E">>,
      <<"M","O","D","I","F","Y">>, <<"P","A","T","C","H">>, <<"P","O","S","T">>, <<"P","U","T">>, <<"R","E","M","O","V","E">>, <<"R","E","N","A","M","E">>, <<"R","E","P","L","A","C","E">>,
      <<"R","E","V","O","K","E">>, <<"S","E","N","D">>, <<"S","E","T">>, <<"T","R","U","N","C","A","T","E">>, <<"U","N","S","U","B","S","C","R","I","B","E">>, <<"U","P","D","A","T","E">>,
      <<"U","P","S","E","R","T">>, <<"W","R","I","T","E">> }

\* A plausible slip: the block-list is not consulted.
isToolkitAllowedIgnoreBlock(cfg, toolkit) ==
    LET normalizedToolkit == normalizeToolkitSlug(toolkit)
    IN IF normalizedToolkit = <<>> THEN FALSE
       ELSE IF cfg.allowedToolkits # <<>>
            THEN Includes(cfg.allowedToolkits, normalizedToolkit)
       ELSE TRUE

\* A plausible slip: the allow-list is consulted before the block-list.
isToolkitAllowedAllowFirst(cfg, toolkit) ==
    LET normalizedToolkit == normalizeToolkitSlug(toolkit)
    IN IF normalizedToolkit = <<>> THEN FALSE
       ELSE IF cfg.allowedToolkits # <<>>
            THEN Includes(cfg.allowedToolkits, normalizedToolkit)
       ELSE ~Includes(cfg.blockedToolkits, normalizedToolkit)

isToolkitAllowed(cfg, toolkit) ==
    LET normalizedToolkit == normalizeToolkitSlug(toolkit)
    IN IF normalizedToolkit = <<>> THEN FALSE
       ELSE IF Includes(cfg.blockedToolkits, normalizedToolkit) THEN FALSE
       ELSE IF cfg.allowedToolkits # <<>>
            THEN Includes(cfg.allowedToolkits, normalizedToolkit)
       ELSE TRUE

isLikelyDestructiveToolSlug(toolSlug) ==
    LET tokens == FilterNonEmpty(Split(normalizeToolSlug(toolSlug), "_"))
    IN \E i \in DOMAIN tokens : tokens[i] \in DESTRUCTIVE_TOOL_VERBS

NoError == <<>>

ErrToolSlugRequired == <<"t","o","o","l","_","s","l","u","g"," ","i","s"," ","r","e","q","u","i","r","e","d">>
ErrNotInAllowedToolSlugs(slug) == <<"T","o","o","l"," ","'">> \o slug \o <<"'"," ","i","s"," ","n","o","t"," ","i","n"," ","a","l","l","o","w","e","d","T","o","o","l","S","l","u","g","s">>
ErrBlockedToolSlug(slug) == <<"T","o","o","l"," ","'">> \o slug \o <<"'"," ","i","s"," ","b","l","o","c","k","e","d"," ","b","y"," ","p","l","u","g","i","n"," ","c","o","n","f","i","g","u","r","a","t","i","o","n">>
ErrReadOnlyToolSlug(slug) ==
    <<"T","o","o","l"," ","'">> \o slug
    \o <<"'"," ","w","a","s"," ","b","l","o","c","k","e","d"," ","b","y"," ","r","e","a","d","O","n","l","y","M","o","d","e"," ","b","e","c","a","u","s","e"," ","i","t"," ","a","p","p","e","a","r","s"," ","t","o"," ","m","o","d","i","f","y"," ","d","a","t","a","."," ">>
    \o <<"D","i","s","a","b","l","e"," ","r","e","a","d","O","n","l","y","M","o","d","e"," ","o","r"," ","a","d","d"," ","t","h","i","s"," ","s","l","u","g"," ","t","o"," ","a","l","l","o","w","e","d","T","o","o","l","S","l","u","g","s"," ","i","f"," ","e","x","e","c","u","t","i","o","n"," ","i","s"," ","i","n","t","e","n","t","i","o","n","a","l",".">>

\* A plausible slip: read-only mode has no exemption for allow-listed slugs.
getToolSlugRestrictionErrorNoExemption(cfg, toolSlug) ==
    LET normalizedToolSlug == normalizeToolSlug(toolSlug)
    IN IF normalizedToolSlug = <<>> THEN ErrToolSlugRequired
       ELSE IF cfg.allowedToolSlugs # <<>>
               /\ ~Includes(cfg.allowedToolSlugs, normalizedToolSlug)
            THEN ErrNotInAllowedToolSlugs(normalizedToolSlug)
       ELSE IF Includes(cfg.blockedToolSlugs, normalizedToolSlug)
            THEN ErrBlockedToolSlug(normalizedToolSlug)
       ELSE IF cfg.readOnlyMode /\ isLikelyDestructiveToolSlug(normalizedToolSlug)
            THEN ErrReadOnlyToolSlug(normalizedToolSlug)
       ELSE NoError

\* A plausible slip: the read-only heuristic runs before the explicit lists
\* and ignores the allow-list override.
getToolSlugRestrictionErrorReadOnlyFirst(cfg, toolSlug) ==
    LET normalizedToolSlug == normalizeToolSlug(toolSlug)
        isExplicitlyAllowed == Includes(cfg.allowedToolSlugs, normalizedToolSlug)
    IN IF normalizedToolSlug = <<>> THEN ErrToolSlugRequired
       ELSE IF cfg.readOnlyMode /\ isLikelyDestructiveToolSlug(normalizedToolSlug)
            THEN ErrReadOnlyToolSlug(normalizedToolSlug)
       ELSE IF cfg.allowedToolSlugs # <<>> /\ ~isExplicitlyAllowed
            THEN ErrNotInAllowedToolSlugs(normalizedToolSlug)
       ELSE IF Includes(cfg.blockedToolSlugs, normalizedToolSlug)
            THEN ErrBlockedToolSlug(normalizedToolSlug)
       ELSE NoError

getToolSlugRestrictionError(cfg, toolSlug) ==
    LET normalizedToolSlug == normalizeToolSlug(toolSlug)
        isExplicitlyAllowed == Includes(cfg.allowedToolSlugs, normalizedToolSlug)
    IN IF normalizedToolSlug = <<>> THEN ErrToolSlugRequired
       ELSE IF cfg.allowedToolSlugs # <<>> /\ ~isExplicitlyAllowed
            THEN ErrNotInAllowedToolSlugs(normalizedToolSlug)
       ELSE IF Includes(cfg.blockedToolSlugs, normalizedToolSlug)
            THEN ErrBlockedToolSlug(normalizedToolSlug)
       ELSE IF cfg.readOnlyMode /\ ~isExplicitlyAllowed
               /\ isLikelyDestructiveToolSlug(normalizedToolSlug)
            THEN ErrReadOnlyToolSlug(normalizedToolSlug)
       ELSE NoError

-----------------------------------------------------------------------------
(* Session cache (client.ts, getSession and its helpers).                  *)

\* Printable ASCII in code order: the order Array.prototype.sort gives strings.
AsciiOrder ==
    <<" ","!","\"","#","$","%","&","'","(",")","*","+",",","-",".","/","0","1","2","3","4","5","6","7","8","9",":",";","<","=",">","?","@","A","B","C","D","E","F","G","H","I","J","K","L","M","N","O","P","Q","R","S","T","U","V","W","X","Y","Z","[","\\","]","^","_","backtick","a","b","c","d","e","f","g","h","i","j","k","l","m","n","o","p","q","r","s","t","u","v","w","x","y","z","{","|","}","~">>

CharCode(c) == CHOOSE i \in DOMAIN AsciiOrder : AsciiOrder[i] = c

RECURSIVE StrLess(_, _)
StrLess(a, b) ==
    IF b = <<>> THEN FALSE
    ELSE IF a = <<>> THEN TRUE
    ELSE IF Head(a) = Head(b) THEN StrLess(Tail(a), Tail(b))
    ELSE CharCode(Head(a)) < CharCode(Head(b))

\* Array.prototype.sort() on strings.
RECURSIVE SortStrings(_)
SortStrings(arr) ==
    IF arr = <<>> THEN <<>>
    ELSE LET m == CHOOSE i \in DOMAIN arr :
                    \A j \in DOMAIN arr : ~StrLess(arr[j], arr[i]) /\ (arr[j] = arr[i] => i <= j)
         IN <<arr[m]>> \o SortStrings(SubSeq(arr, 1, m - 1) \o SubSeq(arr, m + 1, Len(arr)))

\* Object.fromEntries: a later entry of a key replaces the value of the first.
RECURSIVE FromEntries(_)
FromEntries(entries) ==
    IF entries = <<>> THEN <<>>
    ELSE LET init == FromEntries(SubSeq(entries, 1, Len(entries) - 1))
             last == entries[Len(entries)]
         IN IF \E i \in DOMAIN init : init[i][1] = last[1]
            THEN [i \in DOMAIN init |-> IF init[i][1] = last[1] THEN last ELSE init[i]]
            ELSE Append(init, last)

RECURSIVE FilterPins(_)
FilterPins(entries) ==
    IF entries = <<>> THEN <<>>
    ELSE IF Head(entries)[1] # <<>> /\ Head(entries)[2] # <<>>
         THEN <<Head(entries)>> \o FilterPins(Tail(entries))
    ELSE FilterPins(Tail(entries))

\* An account-pin map is the sequence of its <<toolkit, accountId>> entries.
normalizeConnectedAccountsOverride(connectedAccounts) ==
    FromEntries(FilterPins(
        [i \in DOMAIN connectedAccounts |->
            <<normalizeToolkitSlug(connectedAccounts[i][1]), Trim(connectedAccounts[i][2])>>]))

\* A plausible slip: the key leaves the account pins out.
makeSessionCacheKeyScopeOnly(userId, connectedAccounts) == <<"u","i","d",":">> \o userId

makeSessionCacheKey(userId, connectedAccounts) ==
    IF connectedAccounts = <<>> THEN <<"u","i","d",":">> \o userId
    ELSE LET normalized ==
                Join(SortStrings(
                        [i \in DOMAIN connectedAccounts |->
                            normalizeToolkitSlug(connectedAccounts[i][1]) \o <<"=">>
                                \o connectedAccounts[i][2]]), <<",">>)
         IN <<"u","i","d",":">> \o userId \o <<":",":","c","a",":">> \o normalized

\* An optional value is a sequence of at most one element.
None == <<>>
Some(x) == <<x>>

\* The tools directive: block-listed slugs grouped by toolkit, a sequence of
\* [toolkit, disable] in first-seen order.
RECURSIVE GroupBlockedTools(_, _)
GroupBlockedTools(cfg, blocked) ==
    IF blocked = <<>> THEN <<>>
    ELSE LET init == GroupBlockedTools(cfg, SubSeq(blocked, 1, Len(blocked) - 1))
             normalizedSlug == normalizeToolSlug(blocked[Len(blocked)])
             toolkit == normalizeToolkitSlug(Split(normalizedSlug, "_")[1])
         IN IF toolkit = <<>> \/ ~isToolkitAllowed(cfg, toolkit) THEN init
            ELSE IF \E i \in DOMAIN init : init[i].toolkit = toolkit
                 THEN [i \in DOMAIN init |->
                         IF init[i].toolkit = toolkit
                         THEN [init[i] EXCEPT !.disable = Dedup(Append(@, normalizedSlug))]
                         ELSE init[i]]
            ELSE Append(init, [toolkit |-> toolkit, disable |-> <<normalizedSlug>>])

\* The tools directive, empty when there is none.
buildToolRouterBlockedToolsConfig(cfg) == GroupBlockedTools(cfg, cfg.blockedToolSlugs)

\* A session configuration holds its four directives, each empty when it is
\* not set.
IsEmptyConfig(sessionConfig) ==
    /\ sessionConfig.connectedAccounts = <<>>
    /\ sessionConfig.toolkits.enable = <<>>
    /\ sessionConfig.toolkits.disable = <<>>
    /\ sessionConfig.tags = <<>>
    /\ sessionConfig.tools = <<>>

\* A plausible slip: read-only mode adds no tag.
buildSessionConfigUntagged(cfg, connectedAccounts) ==
    LET sessionConfig ==
          [ connectedAccounts |-> normalizeConnectedAccountsOverride(connectedAccounts),
            toolkits |->
                IF cfg.allowedToolkits # <<>>
                THEN [enable |-> cfg.allowedToolkits, disable |-> <<>>]
                ELSE [enable |-> <<>>, disable |-> cfg.blockedToolkits],
            tags |-> Dedup(cfg.sessionTags),
            tools |-> buildToolRouterBlockedToolsConfig(cfg) ]
    IN IF IsEmptyConfig(sessionConfig) THEN None ELSE Some(sessionConfig)

\* The configuration getSession sends: None when no directive is set.
buildSessionConfig(cfg, connectedAccounts) ==
    LET sessionConfig ==
          [ connectedAccounts |-> normalizeConnectedAccountsOverride(connectedAccounts),
            toolkits |->
                IF cfg.allowedToolkits # <<>>
                THEN [enable |-> cfg.allowedToolkits, disable |-> <<>>]
                ELSE [enable |-> <<>>, disable |-> cfg.blockedToolkits],
            tags |-> Dedup(cfg.sessionTags
                             \o (IF cfg.readOnlyMode THEN <<<<"r","e","a","d","O","n","l","y","H","i","n","t">>>> ELSE <<>>)),
            tools |-> buildToolRouterBlockedToolsConfig(cfg) ]
    IN IF IsEmptyConfig(sessionConfig) THEN None ELSE Some(sessionConfig)

\* A plausible slip: the first phrase alone makes the error retryable.
shouldRetrySessionWithoutToolkitFiltersOnePhrase(err, sessionConfig) ==
    IF sessionConfig = None \/ sessionConfig[1].toolkits.enable = <<>> THEN FALSE
    ELSE StrIncludes(ToLowerCase(err), <<"r","e","q","u","i","r","e"," ","a","u","t","h"," ","c","o","n","f","i","g","s"," ","b","u","t"," ","n","o","n","e"," ","e","x","i","s","t">>)

shouldRetrySessionWithoutToolkitFilters(err, sessionConfig) ==
    IF sessionConfig = None \/ sessionConfig[1].toolkits.enable = <<>> THEN FALSE
    ELSE LET message == ToLowerCase(err)
         IN /\ StrIncludes(message, <<"r","e","q","u","i","r","e"," ","a","u","t","h"," ","c","o","n","f","i","g","s"," ","b","u","t"," ","n","o","n","e"," ","e","x","i","s","t">>)
            /\ StrIncludes(message, <<"p","l","e","a","s","e"," ","s","p","e","c","i","f","y"," ","t","h","e","m"," ","i","n"," ","a","u","t","h","_","c","o","n","f","i","g","s">>)

\* A plausible slip: the retry sends no configuration at all.
RetryWithoutToolkitsDropAll(sessionConfig) == None

\* The retry configuration: the toolkits directive removed, the rest kept.
RetryWithoutToolkits(sessionConfig) ==
    IF sessionConfig = None THEN None
    ELSE LET retryWithoutToolkits ==
                [sessionConfig[1] EXCEPT !.toolkits = [enable |-> <<>>, disable |-> <<>>]]
         IN IF IsEmptyConfig(retryWithoutToolkits) THEN None ELSE Some(retryWithoutToolkits)

EmptyMap == <<>>

\* Map.prototype.set
MapSet(map, key, value) ==
    [k \in DOMAIN map \cup {key} |-> IF k = key THEN value ELSE map[k]]

\* A plausible slip: a successful disconnect leaves the cache as it is.
clearUserSessionCacheNoOp(cache, userId) == cache

clearUserSessionCache(cache, userId) ==
    LET prefix == <<"u","i","d",":">> \o userId
    IN [k \in {key \in DOMAIN cache : ~StartsWith(key, prefix)} |-> cache[k]]

-----------------------------------------------------------------------------
(* The remote broker: connected accounts and their listing.                *)

MaxActive == 3
PageSize == 2

Digits == <<"0","1","2","3","4","5","6","7","8","9">>

ScopeU1 == <<"u","1">>
ScopeU2 == <<"u","2">>
StatusActive == <<"A","C","T","I","V","E">>

Account(id, toolkit, userId, status) ==
    [id |-> id, toolkit |-> toolkit, userId |-> userId, status |-> status]

\* The accounts the broker holds at the start: k ACTIVE "gm" accounts of
\* scope u1 among accounts of another scope, toolkit or status.
BrokerAccounts(k) ==
    <<Account(<<"c","b","1">>, <<"g","m">>, ScopeU2, StatusActive)>>
    \o [i \in 1..k |-> Account(<<"c","a">> \o <<Digits[i + 1]>>, <<"g","m">>, ScopeU1, StatusActive)]
    \o <<Account(<<"c","x","1">>, <<"s","n">>, ScopeU1, StatusActive),
         Account(<<"c","e","1">>, <<"g","m">>, ScopeU1, <<"E","X","P","I","R","E","D">>)>>

\* The accounts a listing request selects: every filter that is given holds.
RECURSIVE BrokerSelect(_, _)
BrokerSelect(accts, filter) ==
    IF accts = <<>> THEN <<>>
    ELSE LET a == Head(accts)
             match == /\ (filter.toolkits = <<>> \/ Includes(filter.toolkits, a.toolkit))
                      /\ (filter.userIds = <<>> \/ Includes(filter.userIds, a.userId))
                      /\ (filter.statuses = <<>> \/ Includes(filter.statuses, a.status))
         IN (IF match THEN <<a>> ELSE <<>>) \o BrokerSelect(Tail(accts), filter)

CursorOf(i) == <<"p">> \o <<Digits[i + 1]>>
PageOfCursor(cursor) ==
    IF cursor = <<>> THEN 1 ELSE CHOOSE i \in 1..9 : CursorOf(i) = cursor

\* One page of a listing: PageSize items and the cursor of the next page, the
\* empty cursor on the last page.
BrokerPage(selected, cursor) ==
    LET i == PageOfCursor(cursor)
        last == IF i * PageSize < Len(selected) THEN i * PageSize ELSE Len(selected)
    IN [ items |-> SubSeq(selected, (i - 1) * PageSize + 1, last),
         next  |-> IF i * PageSize < Len(selected) THEN CursorOf(i + 1) ELSE <<>> ]

\* Texts of the errors the broker answers with.
ErrBoom == <<"b","o","o","m">>
ErrNoAccountForDefault ==
    <<"N","o"," ","c","o","n","n","e","c","t","e","d"," ","a","c","c","o","u","n","t"," ","f","o","u","n","d"," ","f","o","r"," ","e","n","t","i","t","y"," ","I","D"," ","d","e","f","a","u","l","t"," ","f","o","r"," ","t","o","o","l","k","i","t"," ","g","m">>
ErrToolsFailed == <<"1"," ","o","u","t"," ","o","f"," ","1"," ","t","o","o","l","s"," ","f","a","i","l","e","d">>
ErrOnlyAllowed == <<"Y","o","u"," ","a","r","e"," ","o","n","l","y"," ","a","l","l","o","w","e","d"," ","t","o"," ","a","c","c","e","s","s"," ","t","h","e"," ","backtick","@","m","e","backtick"," ","u","s","e","r">>
ErrMissingField == <<"F","o","l","l","o","w","i","n","g"," ","f","i","e","l","d","s"," ","a","r","e"," ","m","i","s","s","i","n","g",":"," ","{","'","u","u","i","d","'","}">>
ErrAuthConfigs ==
    <<"T","h","e"," ","f","o","l","l","o","w","i","n","g"," ","t","o","o","l","k","i","t","s"," ","r","e","q","u","i","r","e"," ","a","u","t","h"," ","c","o","n","f","i","g","s"," ","b","u","t"," ","n","o","n","e"," ","e","x","i","s","t"," ","a","n","d"," ","c","a","n","n","o","t"," ","b","e"," ","a","u","t","o","-","c","r","e","a","t","e","d",":"," ","p","h","."," ","P","l","e","a","s","e"," ","s","p","e","c","i","f","y"," ","t","h","e","m"," ","i","n"," ","a","u","t","h","_","c","o","n","f","i","g","s",".">>
ErrAuthConfigsPartial == <<"T","o","o","l","k","i","t","s"," ","r","e","q","u","i","r","e"," ","a","u","t","h"," ","c","o","n","f","i","g","s"," ","b","u","t"," ","n","o","n","e"," ","e","x","i","s","t",".">>

\* The errors toolRouter.create answers with.
CreateErrors == { ErrBoom, ErrAuthConfigs, ErrAuthConfigsPartial }

-----------------------------------------------------------------------------
(* Account listing (client.ts, listConnectedAccounts and its two paths).   *)

CONNECTED_ACCOUNT_STATUSES ==
    { <<"I","N","I","T","I","A","L","I","Z","I","N","G">>, <<"I","N","I","T","I","A","T","E","D">>, <<"A","C","T","I","V","E">>, <<"F","A","I","L","E","D">>, <<"E","X","P","I","R","E","D">>, <<"I","N","A","C","T","I","V","E">> }

RECURSIVE FilterStatuses(_)
FilterStatuses(arr) ==
    IF arr = <<>> THEN <<>>
    ELSE IF Head(arr) \in CONNECTED_ACCOUNT_STATUSES
         THEN <<Head(arr)>> \o FilterStatuses(Tail(arr))
    ELSE FilterStatuses(Tail(arr))

normalizeStatuses(statuses) ==
    Dedup(FilterStatuses([i \in DOMAIN statuses |-> ToUpperCase(Trim(statuses[i]))]))

RECURSIVE FilterAllowedToolkits(_, _)
FilterAllowedToolkits(cfg, arr) ==
    IF arr = <<>> THEN <<>>
    ELSE IF isToolkitAllowed(cfg, Head(arr))
         THEN <<Head(arr)>> \o FilterAllowedToolkits(cfg, Tail(arr))
    ELSE FilterAllowedToolkits(cfg, Tail(arr))

\* The filters listConnectedAccounts sends, from its options.
ListFilters(cfg, options) ==
    [ toolkits |-> FilterAllowedToolkits(cfg, normalizeToolkitList(options.toolkits)),
      userIds  |-> FilterNonEmpty([i \in DOMAIN options.userIds |-> Trim(options.userIds[i])]),
      statuses |-> normalizeStatuses(options.statuses) ]

\* The summaries one page adds: items without a toolkit, or of a toolkit the
\* policy rejects, are dropped; only the raw endpoint reports the owner.
RECURSIVE PageSummaries(_, _, _)
PageSummaries(cfg, items, raw) ==
    IF items = <<>> THEN <<>>
    ELSE LET item == Head(items)
             toolkitSlug == normalizeToolkitSlug(item.toolkit)
         IN (IF toolkitSlug = <<>> \/ ~isToolkitAllowed(cfg, toolkitSlug) THEN <<>>
             ELSE << [ id |-> item.id, toolkit |-> toolkitSlug,
                       userId |-> IF raw THEN item.userId ELSE <<>>,
                       status |-> item.status ] >>)
            \o PageSummaries(cfg, Tail(items), raw)

\* A plausible slip: a pagination loop without its guard of seen cursors.
LoopContinuesUnguarded(next, seenCursors) == next # <<>>

\* The end of one turn of a pagination loop: stop on an empty cursor or on a
\* cursor already seen.
LoopContinues(next, seenCursors) == next # <<>> /\ next \notin seenCursors

-----------------------------------------------------------------------------
(* Account resolver (client.ts, resolveConnectedAccountForExecution).      *)

ErrOtherToolkit(explicitId, accountToolkit, toolkit) ==
    <<"C","o","n","n","e","c","t","e","d"," ","a","c","c","o","u","n","t"," ","'">> \o explicitId \o <<"'"," ","b","e","l","o","n","g","s"," ","t","o"," ","t","o","o","l","k","i","t"," ","'">> \o accountToolkit
    \o <<"'",","," ","b","u","t"," ","t","o","o","l"," ","'">> \o toolkit \o <<"'"," ","w","a","s"," ","r","e","q","u","e","s","t","e","d",".">>

ErrNotActive(explicitId, accountStatus) ==
    <<"C","o","n","n","e","c","t","e","d"," ","a","c","c","o","u","n","t"," ","'">> \o explicitId \o <<"'"," ","i","s"," ","'">> \o accountStatus \o <<"'",","," ","n","o","t"," ","A","C","T","I","V","E",".">>

ErrInvalidAccount(explicitId, message) ==
    <<"I","n","v","a","l","i","d"," ","c","o","n","n","e","c","t","e","d","_","a","c","c","o","u","n","t","_","i","d"," ","'">> \o explicitId \o <<"'",":"," ">> \o message

ErrMultipleActive(toolkit, userId, ids) ==
    <<"M","u","l","t","i","p","l","e"," ","A","C","T","I","V","E"," ","'">> \o toolkit \o <<"'"," ","a","c","c","o","u","n","t","s"," ","f","o","u","n","d"," ","f","o","r"," ","u","s","e","r","_","i","d"," ","'">> \o userId
    \o <<"'",":"," ">> \o ids \o <<"."," ">>
    \o <<"P","l","e","a","s","e"," ","p","r","o","v","i","d","e"," ","c","o","n","n","e","c","t","e","d","_","a","c","c","o","u","n","t","_","i","d"," ","t","o"," ","c","h","o","o","s","e"," ","o","n","e"," ","e","x","p","l","i","c","i","t","l","y",".">>

\* The resolver's answer for a fetched explicit account.
ResolveExplicit(toolkit, explicitId, account) ==
    LET accountToolkit == normalizeToolkitSlug(account.toolkit)
        accountStatus == ToUpperCase(account.status)
    IN IF accountToolkit # <<>> /\ accountToolkit # toolkit
       THEN [error |-> ErrOtherToolkit(explicitId, accountToolkit, toolkit)]
       ELSE IF accountStatus # <<>> /\ accountStatus # StatusActive
       THEN [error |-> ErrNotActive(explicitId, accountStatus)]
       ELSE [connectedAccountId |-> explicitId]

\* A plausible slip: no ACTIVE account is reported as an error.
ResolveFromListingNoneIsError(toolkit, userId, activeAccounts) ==
    IF activeAccounts = <<>> THEN [error |-> <<"N","o"," ","c","o","n","n","e","c","t","i","o","n"," ","f","o","u","n","d">>]
    ELSE IF Len(activeAccounts) = 1 THEN [connectedAccountId |-> activeAccounts[1].id]
    ELSE [error |-> ErrMultipleActive(toolkit, userId,
                        Join([i \in DOMAIN activeAccounts |-> activeAccounts[i].id], <<","," ">>))]

\* A plausible slip: with several ACTIVE accounts the first is taken.
ResolveFromListingPickFirst(toolkit, userId, activeAccounts) ==
    [connectedAccountId |-> IF activeAccounts = <<>> THEN <<>> ELSE activeAccounts[1].id]

\* The resolver's answer for the ACTIVE listing, no explicit id given; no
\* account is the empty id.
ResolveFromListing(toolkit, userId, activeAccounts) ==
    IF Len(activeAccounts) <= 1
    THEN [connectedAccountId |-> IF activeAccounts = <<>> THEN <<>> ELSE activeAccounts[1].id]
    ELSE [error |-> ErrMultipleActive(toolkit, userId,
                        Join([i \in DOMAIN activeAccounts |-> activeAccounts[i].id], <<","," ">>))]

-----------------------------------------------------------------------------
(* Failure classification and recovery (client.ts, tryExecutionRecovery).  *)

\* getUserId: the scope of a call, defaulted when the caller gives none.
getUserId(cfg, overrideUserId) ==
    IF overrideUserId # <<>> THEN overrideUserId
    ELSE IF cfg.defaultUserId # <<>> THEN cfg.defaultUserId
    ELSE <<"d","e","f","a","u","l","t">>

\* The data of a meta response is None or holds the results array; the error
\* read here is the one of the first result itself.
extractNestedMetaError(metaData) ==
    IF metaData = None \/ metaData[1].results = <<>> THEN <<>>
    ELSE metaData[1].results[1].error

buildCombinedErrorText(metaError, metaData, additionalError) ==
    Join(FilterNonEmpty(<<Trim(metaError), Trim(extractNestedMetaError(metaData)),
                          Trim(additionalError)>>), <<"\n">>)

\* A plausible slip: the direct fallback is tried for the "default" scope too.
shouldFallbackToDirectExecutionAnyScope(uid, metaError, metaData) ==
    StrIncludes(ToLowerCase(buildCombinedErrorText(metaError, metaData, <<>>)),
                <<"n","o"," ","c","o","n","n","e","c","t","e","d"," ","a","c","c","o","u","n","t"," ","f","o","u","n","d"," ","f","o","r"," ","e","n","t","i","t","y"," ","i","d"," ","d","e","f","a","u","l","t">>)

shouldFallbackToDirectExecution(uid, metaError, metaData) ==
    IF uid = <<"d","e","f","a","u","l","t">> THEN FALSE
    ELSE StrIncludes(ToLowerCase(buildCombinedErrorText(metaError, metaData, <<>>)),
                     <<"n","o"," ","c","o","n","n","e","c","t","e","d"," ","a","c","c","o","u","n","t"," ","f","o","u","n","d"," ","f","o","r"," ","e","n","t","i","t","y"," ","i","d"," ","d","e","f","a","u","l","t">>)

shouldRetryFromServerHint(errorText) ==
    LET lower == ToLowerCase(errorText)
    IN \/ StrIncludes(lower, <<"o","n","l","y"," ","a","l","l","o","w","e","d"," ","t","o"," ","a","c","c","e","s","s">>)
       \/ StrIncludes(lower, <<"a","l","l","o","w","e","d"," ","t","o"," ","a","c","c","e","s","s"," ","t","h","e">>)

\* A plausible slip: a literal of any length is taken as the hint.
extractServerHintLiteralAnyLength(errorText) ==
    LET n == Len(errorText)
        opens == { i \in 1..n : /\ errorText[i] = "backtick"
                                /\ i + 2 <= n
                                /\ errorText[i + 1] # "backtick"
                                /\ \E j \in (i + 2)..n : errorText[j] = "backtick" }
    IN IF opens = {} THEN <<>>
       ELSE LET i == CHOOSE a \in opens : \A b \in opens : a <= b
                j == CHOOSE a \in (i + 2)..n :
                        /\ errorText[a] = "backtick"
                        /\ \A b \in (i + 2)..n : errorText[b] = "backtick" => a <= b
                literal == Trim(SubSeq(errorText, i + 1, j - 1))
            IN IF literal = <<>> THEN <<>>
               ELSE IF \E k \in DOMAIN literal : IsSpace(literal[k]) THEN <<>>
               ELSE literal

\* The regular expression `([^`]+)`: the leftmost backquote that is followed
\* by one or more other characters and a backquote.
extractServerHintLiteral(errorText) ==
    LET n == Len(errorText)
        opens == { i \in 1..n : /\ errorText[i] = "backtick"
                                /\ i + 2 <= n
                                /\ errorText[i + 1] # "backtick"
                                /\ \E j \in (i + 2)..n : errorText[j] = "backtick" }
    IN IF opens = {} THEN <<>>
       ELSE LET i == CHOOSE a \in opens : \A b \in opens : a <= b
                j == CHOOSE a \in (i + 2)..n :
                        /\ errorText[a] = "backtick"
                        /\ \A b \in (i + 2)..n : errorText[b] = "backtick" => a <= b
                literal == Trim(SubSeq(errorText, i + 1, j - 1))
            IN IF literal = <<>> THEN <<>>
               ELSE IF Len(literal) > 64 THEN <<>>
               ELSE IF \E k \in DOMAIN literal : IsSpace(literal[k]) THEN <<>>
               ELSE literal

\* part.trim().replace(/^['"]|['"]$/g, "")
StripQuotes(part) ==
    LET t == Trim(part)
        a == IF t # <<>> /\ Head(t) \in {"'", "\""} THEN Tail(t) ELSE t
    IN IF a # <<>> /\ a[Len(a)] \in {"'", "\""} THEN SubSeq(a, 1, Len(a) - 1) ELSE a

RECURSIVE SkipSpaces(_, _)
SkipSpaces(text, k) ==
    IF k <= Len(text) /\ IsSpace(text[k]) THEN SkipSpaces(text, k + 1) ELSE k

\* The regular expression /following fields are missing:\s*\{([^}]+)\}/i,
\* then the single field its group names, or the empty string.
extractSingleMissingField(errorText) ==
    LET phrase == <<"f","o","l","l","o","w","i","n","g"," ","f","i","e","l","d","s"," ","a","r","e"," ","m","i","s","s","i","n","g",":">>
        n == Len(errorText)
        lower == ToLowerCase(errorText)
        Open(i) == SkipSpaces(errorText, i + Len(phrase))
        matches == { i \in 1..n :
                        /\ i + Len(phrase) - 1 <= n
                        /\ SubSeq(lower, i, i + Len(phrase) - 1) = phrase
                        /\ Open(i) + 2 <= n
                        /\ errorText[Open(i)] = "{"
                        /\ errorText[Open(i) + 1] # "}"
                        /\ \E j \in (Open(i) + 2)..n : errorText[j] = "}" }
    IN IF matches = {} THEN <<>>
       ELSE LET i == CHOOSE a \in matches : \A b \in matches : a <= b
                o == Open(i)
                j == CHOOSE a \in (o + 2)..n :
                        /\ errorText[a] = "}"
                        /\ \A b \in (o + 2)..n : errorText[b] = "}" => a <= b
                parts == Split(SubSeq(errorText, o + 1, j - 1), ",")
                fields == FilterNonEmpty([k \in DOMAIN parts |-> StripQuotes(parts[k])])
            IN IF Len(fields) = 1 THEN fields[1] ELSE <<>>

\* Tool arguments are the sequence of their entries [key, isString, value];
\* the value of an entry that is not a string is its JSON text.
StringEntries(args) == { i \in DOMAIN args : args[i].isString }

\* { ...args, [field]: hint }
WithField(args, field, hint) ==
    IF \E i \in DOMAIN args : args[i].key = field
    THEN [i \in DOMAIN args |->
            IF args[i].key = field THEN [key |-> field, isString |-> TRUE, value |-> hint]
            ELSE args[i]]
    ELSE Append(args, [key |-> field, isString |-> TRUE, value |-> hint])

\* buildRetryArgsFromHint taking the first of several string fields.
buildRetryArgsFromHintFirstString(args, errorText, hint) ==
    LET stringEntries == StringEntries(args)
    IN IF stringEntries # {}
       THEN LET i == CHOOSE k \in stringEntries : \A m \in stringEntries : k <= m
            IN IF args[i].value = hint THEN None
               ELSE Some(WithField(args, args[i].key, hint))
       ELSE LET missing == extractSingleMissingField(errorText)
            IN IF missing = <<>> THEN None ELSE Some(WithField(args, missing, hint))

\* The arguments of the hinted retry, or None when the target is not unique.
buildRetryArgsFromHint(args, errorText, hint) ==
    LET stringEntries == StringEntries(args)
    IN IF Cardinality(stringEntries) = 1
       THEN LET i == CHOOSE k \in stringEntries : TRUE
            IN IF args[i].value = hint THEN None
               ELSE Some(WithField(args, args[i].key, hint))
       ELSE IF stringEntries = {}
       THEN LET missing == extractSingleMissingField(errorText)
            IN IF missing = <<>> THEN None ELSE Some(WithField(args, missing, hint))
       ELSE None

-----------------------------------------------------------------------------
(* Requests in flight: one record per request, holding the locals of the   *)
(* operation and of the private methods it is suspended in.                *)

Procs == {1, 2}
MaxOps == 2

NoResult == [kind |-> "none", success |-> FALSE, error |-> <<>>, data |-> <<>>]

\* The operation returned { success, error, data }.
Returned(success, error, data) ==
    [kind |-> "returned", success |-> success, error |-> error, data |-> data]

\* The operation's promise rejected with this message.
Thrown(message) ==
    [kind |-> "thrown", success |-> FALSE, error |-> message, data |-> <<>>]

NoFallback == [present |-> FALSE, success |-> FALSE, error |-> <<>>, data |-> <<>>]
NoResolution == [done |-> FALSE, error |-> <<>>, connectedAccountId |-> <<>>]
NoFilters == [toolkits |-> <<>>, userIds |-> <<>>, statuses |-> <<>>]

ProcIdle ==
    [ pc |-> "idle", op |-> "none", calls |-> <<>>, result |-> NoResult,
      userId |-> <<>>, uid |-> <<>>, rawSlug |-> <<>>, toolSlug |-> <<>>,
      toolkit |-> <<>>, args |-> <<>>, explicitId |-> <<>>,
      filters |-> NoFilters, cursor |-> <<>>, seenCursors |-> {}, items |-> <<>>,
      resolution |-> NoResolution, pin |-> <<>>,
      key |-> <<>>, sessionConfig |-> None, session |-> 0,
      createCalls |-> 0, sawCreated |-> 0,
      metaError |-> <<>>, metaData |-> None, pending |-> NoResult,
      fallback |-> NoFallback, retryArgs |-> <<>>,
      pins |-> <<>>, sent |-> <<>>, createErrors |-> <<>>,
      metaCall |-> None, metaReply |-> None, directCalls |-> <<>>,
      directReplies |-> <<>>, recoveries |-> 0,
      toolkitsGiven |-> TRUE, toolkitsArg |-> <<>>,
      requests |-> <<>>, returned |-> <<>>,
      requested |-> <<>>, routerItems |-> <<>>, stateMap |-> <<>>,
      accountItems |-> <<>>, activeToolkits |-> <<>>, listingThrew |-> FALSE,
      limit |-> 0, searchReply |-> None, authReply |-> None,
      evictedInFlight |-> FALSE ]

\* The operation ends with this result.
Finish(l, result) == [l EXCEPT !.pc = "done", !.result = result]

\* The operation issues a remote call and suspends until its reply.
Issue(l, pc, call) == [l EXCEPT !.pc = pc, !.calls = Append(@, call)]

\* A thrown value: an Error with its message, and the status and the
\* error.error.message an API error carries (0 and the empty string when it
\* has none).
ErrorOf(message) == [message |-> message, status |-> 0, apiMessage |-> <<>>]

ApiError(message, status, apiMessage) ==
    [message |-> message, status |-> status, apiMessage |-> apiMessage]

ErrApiSaysNo == <<"a","p","i"," ","s","a","y","s"," ","n","o">>
ErrInvalidApiKey ==
    <<"I","n","v","a","l","i","d"," ","C","o","m","p","o","s","i","o"," ","A","P","I"," ","k","e","y","."," ","G","e","t"," ","a"," ","v","a","l","i","d"," ","k","e","y"," ","f","r","o","m"," ","p","l","a","t","f","o","r","m",".","c","o","m","p","o","s","i","o",".","d","e","v","/","s","e","t","t","i","n","g","s">>

\* The values a remote call may reject with, given the message: a plain
\* Error, or an API error with a status, a nested message or both. Only
\* listToolkits tells them apart, so the other operations are handed the
\* plain Error.
ThrownWith(l, message) ==
    IF l.op = "listToolkits"
    THEN { ErrorOf(message), ApiError(message, 401, <<>>),
           ApiError(message, 500, ErrApiSaysNo), ApiError(message, 401, ErrApiSaysNo) }
    ELSE { ErrorOf(message) }

\* An exception reaches the operation: executeTool catches it only inside its
\* try block (the meta call and the recovery); createConnection and
\* disconnectToolkit catch it around all their remote calls; searchTools,
\* getConnectionStatus and listToolkits throw it again under their own
\* message, the first two not catching what getSession throws; the listing
\* operations do not catch it. listToolkits alone reads more than the message
\* of what was thrown: status 401 becomes the invalid-key error, and
\* error.error.message, when there is one, takes the message's place
\* (client.ts 1075-1084).
OnThrow(l, err) ==
    LET message == err.message
    IN
    IF l.op = "executeTool" /\ l.pc \notin {"awaitMeta", "awaitDirect", "awaitHinted"}
    THEN Finish(l, Thrown(message))
    ELSE IF l.op \in {"getConnectionStatus", "searchTools"}
    THEN Finish(l, Thrown(IF l.pc \in {"awaitCreate", "awaitCreateRetry"} THEN message
                          ELSE IF l.op = "searchTools"
                          THEN <<"F","a","i","l","e","d"," ","t","o"," ","s","e","a","r","c","h"," ","t","o","o","l","s",":"," ">> \o message
                          ELSE <<"F","a","i","l","e","d"," ","t","o"," ","g","e","t"," ","c","o","n","n","e","c","t","i","o","n"," ","s","t","a","t","u","s",":"," ">> \o message))
    ELSE IF l.op = "listToolkits"
    THEN IF err.status = 401 THEN Finish(l, Thrown(ErrInvalidApiKey))
         ELSE Finish(l, Thrown(<<"F","a","i","l","e","d"," ","t","o"," ","l","i","s","t"," ","t","o","o","l","k","i","t","s",":"," ">>
                                \o (IF err.apiMessage # <<>> THEN err.apiMessage
                                    ELSE message)))
    ELSE IF l.op \in {"listConnectedAccounts", "findActiveUserIdsForToolkit"}
    THEN Finish(l, Thrown(message))
    ELSE Finish(l, Returned(FALSE, message, <<>>))

NoHistory ==
    [created |-> 0, raced |-> FALSE, creatorCalls |-> 0, stale |-> FALSE,
     uid |-> <<>>, pins |-> <<>>]
HistOf(h, key) == IF key \in DOMAIN h THEN h[key] ELSE NoHistory

\* A request is between its cache miss and its cache write for this key.
CreatingFor(l, key) == l.pc \in {"awaitCreate", "awaitCreateRetry"} /\ l.key = key

\* A plausible slip: the cache is never consulted.
SessionCacheHasNever(cache, key) == FALSE

\* this.sessionCache.has(key)
SessionCacheHas(cache, key) == key \in DOMAIN cache

\* A toolRouter.create(userId, config) call.
CreateCall(userId, sessionConfig) == [userId |-> userId, config |-> sessionConfig]

\* A pagination loop issues its first request, which carries no cursor.
StartLoop(l, pc, call) ==
    Issue([l EXCEPT !.cursor = <<>>, !.seenCursors = {}, !.requests = << <<>> >>,
                    !.returned = <<>>],
          pc, call)

\* A pagination loop notes the cursor it was handed and requests that page.
NextRequest(l, next, pc, call) ==
    Issue([l EXCEPT !.cursor = next, !.seenCursors = @ \cup {next},
                    !.requests = Append(@, next)],
          pc, call)

\* A plausible slip: the requested toolkits are not put to the policy.
StatusWithSessionUnfiltered(l) ==
    LET normalizedToolkits == normalizeToolkitList(l.toolkitsArg)
        requestedToolkits == normalizedToolkits
    IN IF normalizedToolkits # <<>> /\ requestedToolkits = <<>>
       THEN Finish([l EXCEPT !.requested = requestedToolkits], Returned(TRUE, <<>>, <<>>))
       ELSE StartLoop([l EXCEPT !.requested = requestedToolkits],
                      "awaitToolkits", "session.toolkits")

\* getConnectionStatus after getSession (client.ts 723-727, 741).
StatusWithSession(l) ==
    LET normalizedToolkits == normalizeToolkitList(l.toolkitsArg)
        requestedToolkits == FilterAllowedToolkits(config, normalizedToolkits)
    IN IF normalizedToolkits # <<>> /\ requestedToolkits = <<>>
       THEN Finish([l EXCEPT !.requested = requestedToolkits], Returned(TRUE, <<>>, <<>>))
       ELSE StartLoop([l EXCEPT !.requested = requestedToolkits],
                      "awaitToolkits", "session.toolkits")

\* The caller of getSession resumes with the session.
WithSession(l) ==
    IF l.op = "executeTool"
    THEN Issue([l EXCEPT !.metaCall = Some([sessionId |-> l.session,
                                            tool_slug |-> l.toolSlug,
                                            arguments |-> l.args])],
               "awaitMeta", "executeMetaTool")
    ELSE IF l.op = "getConnectionStatus" THEN StatusWithSession(l)
    ELSE IF l.op = "listToolkits" THEN StartLoop(l, "awaitToolkits", "session.toolkits")
    ELSE IF l.op = "searchTools" THEN Issue(l, "awaitSearch", "executeMetaTool")
    ELSE Issue(l, "awaitAuthorize", "session.authorize")

\* A plausible slip: the session is acquired without the resolved account.
AcquireSessionUnpinned(cfg, cache, h, l) ==
    LET key == makeSessionCacheKey(l.uid, <<>>)
        sessionConfig == buildSessionConfig(cfg, <<>>)
        l1 == [l EXCEPT !.key = key, !.sawCreated = HistOf(h, key).created,
                        !.pins = <<>>]
    IN IF SessionCacheHas(cache, key)
       THEN WithSession([l1 EXCEPT !.session = cache[key]])
       ELSE Issue([l1 EXCEPT !.sessionConfig = sessionConfig, !.createCalls = 1,
                             !.sent = <<CreateCall(l.uid, sessionConfig)>>],
                  "awaitCreate", "toolRouter.create")

\* getSession up to its first await: the cached session, or the create call.
AcquireSession(cfg, cache, h, l) ==
    LET connectedAccounts == IF l.pin # <<>> THEN << <<l.toolkit, l.pin>> >> ELSE <<>>
        normalizedConnectedAccounts == normalizeConnectedAccountsOverride(connectedAccounts)
        key == makeSessionCacheKey(l.uid, normalizedConnectedAccounts)
        sessionConfig == buildSessionConfig(cfg, normalizedConnectedAccounts)
        l1 == [l EXCEPT !.key = key, !.sawCreated = HistOf(h, key).created,
                        !.pins = connectedAccounts]
    IN IF SessionCacheHas(cache, key)
       THEN WithSession([l1 EXCEPT !.session = cache[key]])
       ELSE Issue([l1 EXCEPT !.sessionConfig = sessionConfig, !.createCalls = 1,
                             !.sent = <<CreateCall(l.uid, sessionConfig)>>],
                  "awaitCreate", "toolRouter.create")

ErrToolkitNotAllowed(toolkit) ==
    <<"T","o","o","l","k","i","t"," ","'">> \o toolkit \o <<"'"," ","i","s"," ","n","o","t"," ","a","l","l","o","w","e","d"," ","b","y"," ","p","l","u","g","i","n"," ","c","o","n","f","i","g","u","r","a","t","i","o","n">>
ErrToolkitRequired == <<"T","o","o","l","k","i","t"," ","i","s"," ","r","e","q","u","i","r","e","d">>
ErrDisconnectReadOnly == <<"D","i","s","c","o","n","n","e","c","t"," ","i","s"," ","b","l","o","c","k","e","d"," ","b","y"," ","r","e","a","d","O","n","l","y","M","o","d","e",".">>
ErrNoConnection(toolkit) == <<"N","o"," ","c","o","n","n","e","c","t","i","o","n"," ","f","o","u","n","d"," ","f","o","r"," ","t","o","o","l","k","i","t"," ","'">> \o toolkit \o <<"'">>
ErrMultipleActiveDisconnect(toolkit, userId, ids) ==
    <<"M","u","l","t","i","p","l","e"," ","A","C","T","I","V","E"," ","'">> \o toolkit \o <<"'"," ","a","c","c","o","u","n","t","s"," ","f","o","u","n","d"," ","f","o","r"," ","u","s","e","r","_","i","d"," ","'">> \o userId
    \o <<"'",":"," ">> \o ids \o <<"."," ">>
    \o <<"U","s","e"," ","t","h","e"," ","d","a","s","h","b","o","a","r","d"," ","t","o"," ","d","i","s","c","o","n","n","e","c","t"," ","a"," ","s","p","e","c","i","f","i","c"," ","a","c","c","o","u","n","t",".">>

\* A plausible slip: of several ACTIVE accounts disconnectToolkit deletes the
\* first.
AfterListingFirstOfMany(cfg, cache, h, l, activeAccounts) ==
    IF l.op = "executeTool"
    THEN LET res == ResolveFromListing(l.toolkit, l.uid, activeAccounts)
         IN IF "error" \in DOMAIN res
            THEN Finish([l EXCEPT !.resolution =
                            [done |-> TRUE, error |-> res.error, connectedAccountId |-> <<>>]],
                        Returned(FALSE, res.error, <<>>))
            ELSE AcquireSession(cfg, cache, h,
                    [l EXCEPT !.resolution = [done |-> TRUE, error |-> <<>>,
                                              connectedAccountId |-> res.connectedAccountId],
                              !.pin = res.connectedAccountId])
    ELSE IF l.op = "listConnectedAccounts"
         THEN Finish(l, Returned(TRUE, <<>>, activeAccounts))
    ELSE IF l.op = "findActiveUserIdsForToolkit"
         THEN Finish(l, Returned(TRUE, <<>>,
                  SortStrings(Dedup(FilterNonEmpty(
                      [i \in DOMAIN activeAccounts |-> activeAccounts[i].userId])))))
    ELSE IF Len(activeAccounts) = 0
         THEN Finish(l, Returned(FALSE, ErrNoConnection(l.toolkit), <<>>))
    ELSE Issue([l EXCEPT !.pin = activeAccounts[1].id],
               "awaitDelete", "connectedAccounts.delete")

\* The caller of listConnectedAccounts resumes with the summaries.
AfterListing(cfg, cache, h, l, activeAccounts) ==
    IF l.op = "executeTool"
    THEN LET res == ResolveFromListing(l.toolkit, l.uid, activeAccounts)
         IN IF "error" \in DOMAIN res
            THEN Finish([l EXCEPT !.resolution =
                            [done |-> TRUE, error |-> res.error, connectedAccountId |-> <<>>]],
                        Returned(FALSE, res.error, <<>>))
            ELSE AcquireSession(cfg, cache, h,
                    [l EXCEPT !.resolution = [done |-> TRUE, error |-> <<>>,
                                              connectedAccountId |-> res.connectedAccountId],
                              !.pin = res.connectedAccountId])
    ELSE IF l.op = "listConnectedAccounts"
         THEN Finish(l, Returned(TRUE, <<>>, activeAccounts))
    ELSE IF l.op = "findActiveUserIdsForToolkit"
         THEN Finish(l, Returned(TRUE, <<>>,
                  SortStrings(Dedup(FilterNonEmpty(
                      [i \in DOMAIN activeAccounts |-> activeAccounts[i].userId])))))
    ELSE IF Len(activeAccounts) = 0
         THEN Finish(l, Returned(FALSE, ErrNoConnection(l.toolkit), <<>>))
    ELSE IF Len(activeAccounts) > 1
         THEN Finish(l, Returned(FALSE,
                  ErrMultipleActiveDisconnect(l.toolkit, l.uid,
                      Join([i \in DOMAIN activeAccounts |-> activeAccounts[i].id], <<","," ">>)),
                  <<>>))
    ELSE Issue([l EXCEPT !.pin = activeAccounts[1].id],
               "awaitDelete", "connectedAccounts.delete")

\* listConnectedAccounts up to its first await; toolkitsGiven tells whether
\* its options hold a toolkits array.
StartListingOf(cfg, cache, h, l, options, toolkitsGiven) ==
    LET filters == ListFilters(cfg, options)
    IN IF toolkitsGiven /\ filters.toolkits = <<>>
       THEN AfterListing(cfg, cache, h, l, <<>>)
       ELSE StartLoop([l EXCEPT !.filters = filters, !.items = <<>>,
                                !.toolkitsGiven = toolkitsGiven],
                      "awaitRawPage", "connectedAccounts.list.raw")

\* listConnectedAccounts called with a toolkits array.
StartListing(cfg, cache, h, l, options) == StartListingOf(cfg, cache, h, l, options, TRUE)

-----------------------------------------------------------------------------
(* The broker's replies to execution calls.                                *)

ToolResponse(successful, data, error) ==
    [successful |-> successful, data |-> data, error |-> error,
     data_preview |-> <<>>]

\* A per-call result whose payload the broker put in data_preview, leaving
\* data out.
ToolResponsePreview(successful, data_preview, error) ==
    [successful |-> successful, data |-> <<>>, error |-> error,
     data_preview |-> data_preview]

\* A meta reply: the call throws, or answers { successful, error, data } where
\* data is None or holds results, each [error, response].
MetaThrows(message) ==
    [throws |-> TRUE, message |-> message, successful |-> FALSE, error |-> <<>>,
     data |-> None]
MetaAnswer(successful, error, data) ==
    [throws |-> FALSE, message |-> <<>>, successful |-> successful, error |-> error,
     data |-> data]
MetaResults(itemError, response) ==
    Some([results |-> << [error |-> itemError, response |-> response] >>])

MetaReplies ==
    { MetaThrows(ErrBoom),
      MetaAnswer(TRUE, <<>>, MetaResults(<<>>, ToolResponse(TRUE, <<"d","1">>, <<>>))),
      MetaAnswer(TRUE, <<>>, MetaResults(<<>>, ToolResponsePreview(TRUE, <<"d","3">>, <<>>))),
      MetaAnswer(TRUE, <<>>, Some([results |-> <<>>])),
      MetaAnswer(TRUE, <<>>, None),
      MetaAnswer(FALSE, ErrNoAccountForDefault, None),
      MetaAnswer(FALSE, <<>>, None),
      MetaAnswer(FALSE, ErrBoom, None),
      MetaThrows(ErrNoAccountForDefault),
      MetaAnswer(FALSE, ErrToolsFailed,
                 MetaResults(<<"E","r","r","o","r",":"," ">> \o ErrNoAccountForDefault,
                             ToolResponse(FALSE, <<>>, <<>>))),
      MetaAnswer(TRUE, <<>>, MetaResults(<<>>, ToolResponse(FALSE, <<>>, ErrOnlyAllowed))),
      MetaAnswer(TRUE, <<>>,
                 MetaResults(ErrMissingField, ToolResponse(FALSE, <<>>, ErrOnlyAllowed))) }

\* A direct reply: tools.execute throws, or answers { successful, data, error }.
DirectThrows(message) ==
    [throws |-> TRUE, message |-> message, successful |-> FALSE, data |-> <<>>,
     error |-> <<>>]
DirectAnswer(successful, data, error) ==
    [throws |-> FALSE, message |-> <<>>, successful |-> successful, data |-> data,
     error |-> error]

DirectReplies ==
    { DirectThrows(ErrBoom),
      DirectAnswer(TRUE, <<"d","2">>, <<>>),
      DirectAnswer(FALSE, <<>>, ErrOnlyAllowed),
      DirectAnswer(FALSE, <<>>, <<>>) }

\* executeDirectTool: the reply as a result, an exception as a failure.
executeDirectTool(reply) ==
    IF reply.throws THEN Returned(FALSE, reply.message, <<>>)
    ELSE Returned(reply.successful, reply.error, reply.data)

ErrExecutionFailed == <<"E","x","e","c","u","t","i","o","n"," ","f","a","i","l","e","d">>
ErrNoResult == <<"N","o"," ","r","e","s","u","l","t"," ","r","e","t","u","r","n","e","d">>

\* A plausible slip: a failed recovery hands back the original failure.
NotRecoveredOriginal(l) == Finish(l, l.pending)

\* tryExecutionRecovery found nothing more to try: the direct fallback's
\* result when there is one, else what executeTool returns for the failure.
NotRecovered(l) ==
    IF l.fallback.present
    THEN Finish(l, Returned(l.fallback.success, l.fallback.error, l.fallback.data))
    ELSE Finish(l, l.pending)

\* A tools.execute call as executeDirectTool issues it.
DirectCall(l, kind, arguments) ==
    [kind |-> kind, toolSlug |-> l.toolSlug, userId |-> l.uid,
     connectedAccountId |-> l.pin, arguments |-> arguments]

\* tryHintedIdentifierRetry up to its call: the arguments of the retry, or
\* None when it returns null.
HintedRetryArgs(args, metaError, metaData, additionalError) ==
    LET combined == buildCombinedErrorText(metaError, metaData, additionalError)
        hint == extractServerHintLiteral(combined)
    IN IF ~shouldRetryFromServerHint(combined) THEN None
       ELSE IF hint = <<>> THEN None
       ELSE buildRetryArgsFromHint(args, combined, hint)

\* tryHintedIdentifierRetry up to its await.
TryHinted(l) ==
    LET retryArgs == HintedRetryArgs(l.args, l.metaError, l.metaData, l.fallback.error)
    IN IF retryArgs = None THEN NotRecovered(l)
       ELSE Issue([l EXCEPT !.retryArgs = retryArgs[1],
                            !.directCalls = Append(@, DirectCall(l, "hinted", retryArgs[1]))],
                  "awaitHinted", "tools.execute")

\* tryExecutionRecovery up to its first await.
StartRecovery(l0) ==
    LET l == [l0 EXCEPT !.recoveries = @ + 1]
    IN IF shouldFallbackToDirectExecution(l.uid, l.metaError, l.metaData)
       THEN Issue([l EXCEPT !.directCalls = Append(@, DirectCall(l, "fallback", l.args))],
                  "awaitDirect", "tools.execute")
       ELSE TryHinted(l)

\* executeTool after the meta call.
AfterMeta(l0, reply) ==
    LET l == [l0 EXCEPT !.metaReply = Some(reply)] IN
    IF reply.throws THEN Finish(l, Returned(FALSE, reply.message, <<>>))
    ELSE IF ~reply.successful
    THEN StartRecovery([l EXCEPT !.metaError = reply.error, !.metaData = reply.data,
                                 !.pending = Returned(FALSE,
                                     IF reply.error # <<>> THEN reply.error
                                     ELSE ErrExecutionFailed, <<>>)])
    ELSE IF reply.data = None \/ reply.data[1].results = <<>>
    THEN Finish(l, Returned(FALSE, ErrNoResult, <<>>))
    ELSE LET toolResponse == reply.data[1].results[1].response
         IN IF ~toolResponse.successful
            THEN StartRecovery([l EXCEPT !.metaError = toolResponse.error,
                                         !.metaData = reply.data,
                                         !.pending = Returned(FALSE, toolResponse.error,
                                                              toolResponse.data)])
            ELSE Finish(l, Returned(TRUE, toolResponse.error, toolResponse.data))

-----------------------------------------------------------------------------
(* The operations of the client, one action per stretch between awaits.    *)

ExecSlugs == { <<"G","M","_","G","E","T">>, <<" ","g","m","_","d","e","l","e","t","e","_","x"," ">>, <<>>, <<"_","G","E","T">> }
ExecUserIds == { <<>>, ScopeU1 }
ExecAccountIds == { <<>>, <<" ","c","a","1"," ">>, <<"c","x","1">>, <<"c","e","1">>, <<"z","z","9">> }
ExecArgs == { <<>>, << [key |-> <<"u","u","i","d">>, isString |-> TRUE, value |-> <<"x">>] >> }
ConnToolkits == { <<"g","m">>, <<" ","S","N"," ">>, <<"p","h">>, <<>> }

ErrNotFound == <<"n","o","t"," ","f","o","u","n","d">>

\* One step of request p: its record changes, and a create call issued while
\* another request is creating a session for the same key is noted.
Step(p, l2) ==
    /\ proc' = [proc EXCEPT ![p] = l2]
    /\ hist' = IF /\ l2.pc = "awaitCreate"
                  /\ \E q \in Procs \ {p} : CreatingFor(proc[q], l2.key)
               THEN MapSet(hist, l2.key, [HistOf(hist, l2.key) EXCEPT !.raced = TRUE])
               ELSE hist

\* Request p is free and fewer than limit operations were started.
CanStartWithin(p, limit) == proc[p].pc = "idle" /\ nOps < limit

CanStart(p) == CanStartWithin(p, MaxOps)

\* executeTool up to its first await (client.ts 391-410).
StartExecuteToolAs(p, limit, accountIds, userIds) ==
    /\ CanStartWithin(p, limit)
    /\ \E toolSlug \in ExecSlugs, args \in ExecArgs, userId \in userIds,
          connectedAccountId \in accountIds :
        LET uid == getUserId(config, userId)
            normalizedToolSlug == normalizeToolSlug(toolSlug)
            toolRestrictionError == getToolSlugRestrictionError(config, normalizedToolSlug)
            toolkit == normalizeToolkitSlug(Split(normalizedToolSlug, "_")[1])
            explicitId == Trim(connectedAccountId)
            l == [ProcIdle EXCEPT !.op = "executeTool", !.userId = userId, !.uid = uid,
                                  !.rawSlug = toolSlug, !.toolSlug = normalizedToolSlug,
                                  !.toolkit = toolkit, !.args = args,
                                  !.explicitId = explicitId]
        IN Step(p,
             IF toolRestrictionError # NoError
             THEN Finish(l, Returned(FALSE, toolRestrictionError, <<>>))
             ELSE IF ~isToolkitAllowed(config, toolkit)
             THEN Finish(l, Returned(FALSE, ErrToolkitNotAllowed(toolkit), <<>>))
             ELSE IF explicitId # <<>>
             THEN Issue(l, "awaitAccountGet", "connectedAccounts.get")
             ELSE StartListing(config, sessionCache, hist, l,
                     [toolkits |-> <<toolkit>>, userIds |-> <<uid>>,
                      statuses |-> <<StatusActive>>]))
    /\ nOps' = nOps + 1
    /\ UNCHANGED <<config, accounts, sessionCache, nextSession, polVars>>

StartExecuteTool(p, limit, accountIds) ==
    StartExecuteToolAs(p, limit, accountIds, ExecUserIds)

ExecuteToolStart(p) == StartExecuteTool(p, MaxOps, ExecAccountIds)

\* connectedAccounts.get answers: the account, or an exception.
AccountGetResponse(p) ==
    LET l == proc[p]
        found == { i \in DOMAIN accounts : accounts[i].id = l.explicitId }
    IN /\ l.pc = "awaitAccountGet"
       /\ \/ /\ found # {}
             /\ LET res == ResolveExplicit(l.toolkit, l.explicitId,
                                           accounts[CHOOSE i \in found : TRUE])
                IN Step(p,
                     IF "error" \in DOMAIN res
                     THEN Finish([l EXCEPT !.resolution =
                                     [done |-> TRUE, error |-> res.error,
                                      connectedAccountId |-> <<>>]],
                                 Returned(FALSE, res.error, <<>>))
                     ELSE AcquireSession(config, sessionCache, hist,
                             [l EXCEPT !.resolution =
                                          [done |-> TRUE, error |-> <<>>,
                                           connectedAccountId |-> res.connectedAccountId],
                                       !.pin = res.connectedAccountId]))
          \/ LET message == IF found = {} THEN ErrNotFound ELSE ErrBoom
                 error == ErrInvalidAccount(l.explicitId, message)
             IN Step(p, Finish([l EXCEPT !.resolution =
                                   [done |-> TRUE, error |-> error,
                                    connectedAccountId |-> <<>>]],
                               Returned(FALSE, error, <<>>)))
       /\ UNCHANGED <<config, accounts, sessionCache, nextSession, nOps, polVars>>

\* One turn of an account listing loop after this page arrived.
PageTurn(l, raw, page) ==
    LET items == l.items \o PageSummaries(config, page.items, raw)
        l1 == [l EXCEPT !.items = items, !.returned = Append(@, page.next)]
    IN IF LoopContinues(page.next, l.seenCursors)
       THEN NextRequest(l1, page.next, l.pc,
                        IF raw THEN "connectedAccounts.list.raw" ELSE "connectedAccounts.list")
       ELSE AfterListing(config, sessionCache, hist, l1, items)

\* One turn of an account listing loop on the broker's page for its cursor.
PageArrives(l, raw) ==
    PageTurn(l, raw, BrokerPage(BrokerSelect(accounts, l.filters), l.cursor))

\* A plausible slip: the SDK listing goes on from what the raw listing held.
RawPageResponseKeepsItems(p) ==
    LET l == proc[p]
    IN /\ l.pc = "awaitRawPage"
       /\ \/ Step(p, PageArrives(l, TRUE))
          \/ Step(p, StartLoop(l, "awaitFallbackPage", "connectedAccounts.list"))
       /\ UNCHANGED <<config, accounts, sessionCache, nextSession, nOps, polVars>>

\* The raw listing answers a page, or throws and the SDK listing starts.
RawPageResponse(p) ==
    LET l == proc[p]
    IN /\ l.pc = "awaitRawPage"
       /\ \/ Step(p, PageArrives(l, TRUE))
          \/ Step(p, StartLoop([l EXCEPT !.items = <<>>],
                               "awaitFallbackPage", "connectedAccounts.list"))
       /\ UNCHANGED <<config, accounts, sessionCache, nextSession, nOps, polVars>>

\* The SDK listing answers a page, or throws to the caller of
\* listConnectedAccounts.
FallbackPageResponse(p) ==
    LET l == proc[p]
    IN /\ l.pc = "awaitFallbackPage"
       /\ \/ Step(p, PageArrives(l, FALSE))
          \/ Step(p, OnThrow(l, ErrorOf(ErrBoom)))
       /\ UNCHANGED <<config, accounts, sessionCache, nextSession, nOps, polVars>>

\* A plausible slip: the new session replaces the cache instead of joining it.
SessionCreatedAlone(p) ==
    LET l == proc[p]
        session == nextSession + 1
    IN /\ sessionCache' = MapSet(EmptyMap, l.key, session)
       /\ nextSession' = session
       /\ proc' = [proc EXCEPT ![p] = WithSession([l EXCEPT !.session = session])]
       /\ hist' = MapSet(hist, l.key,
                         [HistOf(hist, l.key) EXCEPT !.created = @ + 1,
                                                     !.creatorCalls = l.createCalls,
                                                     !.stale = l.evictedInFlight,
                                                     !.uid = l.uid,
                                                     !.pins =
                                                       normalizeConnectedAccountsOverride(l.pins)])
       /\ UNCHANGED <<config, accounts, nOps, polVars>>

\* toolRouter.create succeeded: the session is cached under the key computed
\* before the await (client.ts 203-204).
SessionCreated(p) ==
    LET l == proc[p]
        session == nextSession + 1
    IN /\ sessionCache' = MapSet(sessionCache, l.key, session)
       /\ nextSession' = session
       /\ proc' = [proc EXCEPT ![p] = WithSession([l EXCEPT !.session = session])]
       /\ hist' = MapSet(hist, l.key,
                         [HistOf(hist, l.key) EXCEPT !.created = @ + 1,
                                                     !.creatorCalls = l.createCalls,
                                                     !.stale = l.evictedInFlight,
                                                     !.uid = l.uid,
                                                     !.pins =
                                                       normalizeConnectedAccountsOverride(l.pins)])
       /\ UNCHANGED <<config, accounts, nOps, polVars>>

\* toolRouter.create answers the first attempt (client.ts 189-201).
CreateSessionResponse(p) ==
    LET l == proc[p]
    IN /\ l.pc = "awaitCreate"
       /\ \/ SessionCreated(p)
          \/ \E message \in CreateErrors : \E err \in ThrownWith(l, message) :
                /\ Step(p,
                     LET l1 == [l EXCEPT !.createErrors = Append(@, message)]
                     IN IF shouldRetrySessionWithoutToolkitFilters(message, l.sessionConfig)
                        THEN Issue([l1 EXCEPT
                                      !.sessionConfig = RetryWithoutToolkits(@),
                                      !.evictedInFlight = FALSE,
                                      !.createCalls = @ + 1,
                                      !.sent = Append(@, CreateCall(l.uid,
                                                  RetryWithoutToolkits(l.sessionConfig)))],
                                   "awaitCreateRetry", "toolRouter.create")
                        ELSE OnThrow(l1, err))
                /\ UNCHANGED <<config, accounts, sessionCache, nextSession, nOps, polVars>>

\* toolRouter.create answers the retry without toolkit filters.
CreateSessionRetryResponse(p) ==
    LET l == proc[p]
    IN /\ l.pc = "awaitCreateRetry"
       /\ \/ SessionCreated(p)
          \/ \E err \in ThrownWith(l, ErrBoom) :
             /\ Step(p, OnThrow([l EXCEPT !.createErrors = Append(@, ErrBoom)], err))
             /\ UNCHANGED <<config, accounts, sessionCache, nextSession, nOps, polVars>>

\* The meta call answers (client.ts 423-480).
MetaResponse(p) ==
    LET l == proc[p]
    IN /\ l.pc = "awaitMeta"
       /\ \E reply \in MetaReplies : Step(p, AfterMeta(l, reply))
       /\ UNCHANGED <<config, accounts, sessionCache, nextSession, nOps, polVars>>

\* The direct fallback answers (client.ts 491-500).
DirectFallbackResponse(p) ==
    LET l == proc[p]
    IN /\ l.pc = "awaitDirect"
       /\ \E reply \in DirectReplies :
            LET directFallback == executeDirectTool(reply)
                l1 == [l EXCEPT !.directReplies = Append(@, reply),
                                !.fallback =
                                   [present |-> TRUE, success |-> directFallback.success,
                                    error |-> directFallback.error,
                                    data |-> directFallback.data]]
            IN Step(p, IF directFallback.success THEN Finish(l1, directFallback)
                       ELSE TryHinted(l1))
       /\ UNCHANGED <<config, accounts, sessionCache, nextSession, nOps, polVars>>

\* A plausible slip: a hinted retry that fails is tried again.
HintedRetryResponseAgain(p) ==
    LET l == proc[p]
    IN /\ l.pc = "awaitHinted"
       /\ \E reply \in DirectReplies :
            LET retried == executeDirectTool(reply)
                l1 == [l EXCEPT !.directReplies = Append(@, reply)]
            IN Step(p, IF retried.success THEN Finish(l1, retried) ELSE TryHinted(l1))
       /\ UNCHANGED <<config, accounts, sessionCache, nextSession, nOps, polVars>>

\* The hinted retry answers: its result is the operation's, whatever it is.
HintedRetryResponse(p) ==
    LET l == proc[p]
    IN /\ l.pc = "awaitHinted"
       /\ \E reply \in DirectReplies :
            Step(p, Finish([l EXCEPT !.directReplies = Append(@, reply)],
                           executeDirectTool(reply)))
       /\ UNCHANGED <<config, accounts, sessionCache, nextSession, nOps, polVars>>

\* createConnection up to its first await (client.ts 1021-1033).
StartCreateConnectionAs(p, limit, userIds) ==
    /\ CanStartWithin(p, limit)
    /\ \E toolkit \in ConnToolkits, userId \in userIds :
        LET uid == getUserId(config, userId)
            toolkitSlug == normalizeToolkitSlug(toolkit)
            l == [ProcIdle EXCEPT !.op = "createConnection", !.userId = userId,
                                  !.uid = uid, !.toolkit = toolkitSlug]
        IN Step(p,
             IF toolkitSlug = <<>>
             THEN Finish(l, Returned(FALSE, ErrToolkitRequired, <<>>))
             ELSE IF ~isToolkitAllowed(config, toolkitSlug)
             THEN Finish(l, Returned(FALSE, ErrToolkitNotAllowed(toolkitSlug), <<>>))
             ELSE AcquireSession(config, sessionCache, hist, l))
    /\ nOps' = nOps + 1
    /\ UNCHANGED <<config, accounts, sessionCache, nextSession, polVars>>

\* A plausible slip: createConnection without its policy check.
StartCreateConnectionNoPolicy(p, limit) ==
    /\ CanStartWithin(p, limit)
    /\ \E toolkit \in ConnToolkits, userId \in ExecUserIds :
        LET uid == getUserId(config, userId)
            toolkitSlug == normalizeToolkitSlug(toolkit)
            l == [ProcIdle EXCEPT !.op = "createConnection", !.userId = userId,
                                  !.uid = uid, !.toolkit = toolkitSlug]
        IN Step(p,
             IF toolkitSlug = <<>>
             THEN Finish(l, Returned(FALSE, ErrToolkitRequired, <<>>))
             ELSE AcquireSession(config, sessionCache, hist, l))
    /\ nOps' = nOps + 1
    /\ UNCHANGED <<config, accounts, sessionCache, nextSession, polVars>>

StartCreateConnection(p, limit) == StartCreateConnectionAs(p, limit, ExecUserIds)

CreateConnectionStart(p) == StartCreateConnection(p, MaxOps)

AuthUrl == <<"h","t","t","p","s",":","/","/","c","o","n","n","e","c","t","/","x">>
AuthUrlOther == <<"h","t","t","p","s",":","/","/","c","o","n","n","e","c","t","/","y">>

\* What session.authorize resolves to: redirectUrl, url, both or neither
\* (an absent field is the empty string here, both being falsy).
AuthorizeReplies ==
    { [redirectUrl |-> AuthUrl, url |-> <<>>],
      [redirectUrl |-> <<>>, url |-> AuthUrlOther],
      [redirectUrl |-> AuthUrl, url |-> AuthUrlOther],
      [redirectUrl |-> <<>>, url |-> <<>>] }

\* result.redirectUrl || result.url || ""
AuthUrlOf(result) ==
    IF result.redirectUrl # <<>> THEN result.redirectUrl
    ELSE IF result.url # <<>> THEN result.url
    ELSE <<>>

\* session.authorize answers with one of these results, or throws.
AuthorizeResponseFrom(p, replies) ==
    LET l == proc[p]
    IN /\ l.pc = "awaitAuthorize"
       /\ \/ \E result \in replies :
                Step(p, Finish([l EXCEPT !.authReply = Some(result)],
                               Returned(TRUE, <<>>, AuthUrlOf(result))))
          \/ Step(p, OnThrow(l, ErrorOf(ErrBoom)))
       /\ UNCHANGED <<config, accounts, sessionCache, nextSession, nOps, polVars>>

AuthorizeResponse(p) == AuthorizeResponseFrom(p, AuthorizeReplies)

\* disconnectToolkit up to its first await (client.ts 1094-1113).
StartDisconnectToolkitAs(p, limit, userIds) ==
    /\ CanStartWithin(p, limit)
    /\ \E toolkit \in ConnToolkits, userId \in userIds :
        LET uid == getUserId(config, userId)
            toolkitSlug == normalizeToolkitSlug(toolkit)
            l == [ProcIdle EXCEPT !.op = "disconnectToolkit", !.userId = userId,
                                  !.uid = uid, !.toolkit = toolkitSlug]
        IN Step(p,
             IF toolkitSlug = <<>>
             THEN Finish(l, Returned(FALSE, ErrToolkitRequired, <<>>))
             ELSE IF config.readOnlyMode
             THEN Finish(l, Returned(FALSE, ErrDisconnectReadOnly, <<>>))
             ELSE StartListing(config, sessionCache, hist, l,
                     [toolkits |-> <<toolkitSlug>>, userIds |-> <<uid>>,
                      statuses |-> <<StatusActive>>]))
    /\ nOps' = nOps + 1
    /\ UNCHANGED <<config, accounts, sessionCache, nextSession, polVars>>

\* A plausible slip: disconnectToolkit without its read-only check.
StartDisconnectToolkitAnyMode(p, limit) ==
    /\ CanStartWithin(p, limit)
    /\ \E toolkit \in ConnToolkits, userId \in ExecUserIds :
        LET uid == getUserId(config, userId)
            toolkitSlug == normalizeToolkitSlug(toolkit)
            l == [ProcIdle EXCEPT !.op = "disconnectToolkit", !.userId = userId,
                                  !.uid = uid, !.toolkit = toolkitSlug]
        IN Step(p,
             IF toolkitSlug = <<>>
             THEN Finish(l, Returned(FALSE, ErrToolkitRequired, <<>>))
             ELSE StartListing(config, sessionCache, hist, l,
                     [toolkits |-> <<toolkitSlug>>, userIds |-> <<uid>>,
                      statuses |-> <<StatusActive>>]))
    /\ nOps' = nOps + 1
    /\ UNCHANGED <<config, accounts, sessionCache, nextSession, polVars>>

StartDisconnectToolkit(p, limit) == StartDisconnectToolkitAs(p, limit, ExecUserIds)

DisconnectToolkitStart(p) == StartDisconnectToolkit(p, MaxOps)

RECURSIVE WithoutAccount(_, _)
WithoutAccount(accts, id) ==
    IF accts = <<>> THEN <<>>
    ELSE (IF Head(accts).id = id THEN <<>> ELSE <<Head(accts)>>)
         \o WithoutAccount(Tail(accts), id)

\* The history of the keys an eviction for this scope removes starts anew.
HistAfterClear(h, userId) ==
    [k \in DOMAIN h |->
        IF StartsWith(k, <<"u","i","d",":">> \o userId)
        THEN [NoHistory EXCEPT !.raced =
                 \E p, q \in Procs :
                    p # q /\ CreatingFor(proc[p], k) /\ CreatingFor(proc[q], k)]
        ELSE h[k]]

\* The request awaits a toolRouter.create call it issued for this scope.
AwaitsCreateFor(l, userId) ==
    l.pc \in {"awaitCreate", "awaitCreateRetry"} /\ l.uid = userId

\* connectedAccounts.delete answers: the account is gone and the sessions of
\* the scope are evicted, or an exception (client.ts 1129-1140).  A request
\* whose create call for the scope is in flight at the eviction is noted.
DeleteResponse(p) ==
    LET l == proc[p]
    IN /\ l.pc = "awaitDelete"
       /\ \/ /\ accounts' = WithoutAccount(accounts, l.pin)
             /\ sessionCache' = clearUserSessionCache(sessionCache, l.uid)
             /\ hist' = HistAfterClear(hist, l.uid)
             /\ proc' = [q \in DOMAIN proc |->
                            IF q = p THEN Finish(l, Returned(TRUE, <<>>, <<>>))
                            ELSE IF AwaitsCreateFor(proc[q], l.uid)
                            THEN [proc[q] EXCEPT !.evictedInFlight = TRUE]
                            ELSE proc[q]]
          \/ /\ Step(p, OnThrow(l, ErrorOf(ErrBoom)))
             /\ UNCHANGED <<accounts, sessionCache>>
       /\ UNCHANGED <<config, nextSession, nOps, polVars>>

\* The caller takes the result of its operation and may start another.
Settle(p) ==
    /\ proc[p].pc = "done"
    /\ proc' = [proc EXCEPT ![p] = ProcIdle]
    /\ UNCHANGED <<config, accounts, sessionCache, nextSession, nOps, hist, polVars>>

-----------------------------------------------------------------------------
(* Spec: one caller, its operations one after the other.                   *)
(* SpecSessions: two callers whose session operations interleave.          *)

RawConfig(allowedToolkits, blockedToolkits, allowedToolSlugs, blockedToolSlugs,
          readOnlyMode, defaultUserId) ==
    [ allowedToolkits |-> allowedToolkits, blockedToolkits |-> blockedToolkits,
      allowedToolSlugs |-> allowedToolSlugs, blockedToolSlugs |-> blockedToolSlugs,
      readOnlyMode |-> readOnlyMode, defaultUserId |-> defaultUserId,
      sessionTags |-> <<>> ]

RawConfigs ==
    { RawConfig(<<>>, <<>>, <<>>, <<>>, FALSE, <<>>),
      RawConfig(<<>>, <<<<"G","M">>>>, <<>>, <<>>, FALSE, <<>>),
      RawConfig(<<>>, <<>>, <<>>, <<>>, TRUE, <<>>),
      RawConfig(<<>>, <<>>, <<<<"g","m","_","d","e","l","e","t","e","_","x">>>>, <<>>, TRUE, <<>>),
      RawConfig(<<<<"g","m">>, <<"p","h">>>>, <<>>, <<>>, <<<<"g","m","_","s","e","n","d">>, <<"s","n","_","p","u","t">>>>, TRUE, <<>>),
      RawConfig(<<>>, <<>>, <<>>, <<<<"G","M","_","G","E","T">>>>, FALSE, <<"a","p","p">>) }

NotRun == [done |-> FALSE]
NoneRun == [toolkit |-> NotRun, slug |-> NotRun, hint |-> NotRun]
\* No agent-facing tool is being called.
NoToolCall == [pc |-> "none"]
NoHintInput ==
    [args |-> <<>>, metaError |-> <<>>, metaData |-> None, additionalError |-> <<>>]

\* A client constructed from one of these configurations, facing a broker
\* that holds one of these account lists.
InitWith(rawConfigs, brokers) ==
    /\ config \in { NewClientConfig(raw) : raw \in rawConfigs }
    /\ accounts \in brokers
    /\ sessionCache = EmptyMap
    /\ nextSession = 0
    /\ proc = [p \in Procs |-> ProcIdle]
    /\ nOps = 0
    /\ hist = EmptyMap
    /\ polToolkit = <<>>
    /\ polSlug = <<>>
    /\ polOut = NoneRun
    /\ hintIn = NoHintInput
    /\ tool = NoToolCall

Init == InitWith(RawConfigs, { BrokerAccounts(k) : k \in 0..MaxActive })

\* The interleaved callers' broker answers authorize with a redirect URL.
AuthorizeRedirects == { [redirectUrl |-> AuthUrl, url |-> <<>>] }

SessionSteps(p) ==
    \/ CreateConnectionStart(p)
    \/ AuthorizeResponseFrom(p, AuthorizeRedirects)
    \/ DisconnectToolkitStart(p)
    \/ RawPageResponse(p)
    \/ FallbackPageResponse(p)
    \/ DeleteResponse(p)
    \/ CreateSessionResponse(p)
    \/ CreateSessionRetryResponse(p)
    \/ Settle(p)

ExecuteSteps(p) ==
    \/ ExecuteToolStart(p)
    \/ AccountGetResponse(p)
    \/ MetaResponse(p)
    \/ DirectFallbackResponse(p)
    \/ HintedRetryResponse(p)

Next == ExecuteSteps(1) \/ SessionSteps(1)

Spec == Init /\ [][Next]_vars

\* SpecCall: one caller and MaxCallOps operations, for what one operation
\* does on its own.
MaxCallOps == 1

CallNext ==
    \/ StartExecuteTool(1, MaxCallOps, ExecAccountIds)
    \/ StartCreateConnection(1, MaxCallOps)
    \/ StartDisconnectToolkit(1, MaxCallOps)
    \/ AccountGetResponse(1)
    \/ RawPageResponse(1)
    \/ FallbackPageResponse(1)
    \/ CreateSessionResponse(1)
    \/ CreateSessionRetryResponse(1)
    \/ MetaResponse(1)
    \/ DirectFallbackResponse(1)
    \/ HintedRetryResponse(1)
    \/ AuthorizeResponse(1)
    \/ DeleteResponse(1)
    \/ Settle(1)

SpecCall == Init /\ [][CallNext]_vars

\* The interleaved callers start against a broker holding one account of the
\* scope, or as many as it may hold.
SessionsInit == Init /\ accounts \in { BrokerAccounts(1), BrokerAccounts(MaxActive) }

SessionsNext == \E p \in Procs : SessionSteps(p)

SpecSessions == SessionsInit /\ [][SessionsNext]_vars

-----------------------------------------------------------------------------
(* SpecScope: one caller against a broker holding one ACTIVE account of    *)
(* the scope, long enough to create sessions, disconnect and come back.    *)

MaxScopeOps == 3

ScopeRawConfigs ==
    { RawConfig(<<>>, <<>>, <<>>, <<>>, FALSE, <<>>),
      RawConfig(<<<<"g","m">>, <<"p","h">>>>, <<>>, <<>>, <<>>, FALSE, <<>>) }

ScopeInit == InitWith(ScopeRawConfigs, { BrokerAccounts(1) })

ScopeExecuteToolStart == StartExecuteTool(1, MaxScopeOps, { <<>> })
ScopeCreateConnectionStart == StartCreateConnection(1, MaxScopeOps)
ScopeDisconnectToolkitStart == StartDisconnectToolkit(1, MaxScopeOps)

ScopeNext ==
    \/ ScopeExecuteToolStart
    \/ ScopeCreateConnectionStart
    \/ ScopeDisconnectToolkitStart
    \/ RawPageResponse(1)
    \/ FallbackPageResponse(1)
    \/ CreateSessionResponse(1)
    \/ CreateSessionRetryResponse(1)
    \/ MetaResponse(1)
    \/ DirectFallbackResponse(1)
    \/ HintedRetryResponse(1)
    \/ AuthorizeResponse(1)
    \/ DeleteResponse(1)
    \/ Settle(1)

SpecScope == ScopeInit /\ [][ScopeNext]_vars

-----------------------------------------------------------------------------
(* Connection status, toolkit listing, tool search and the listing of      *)
(* connected accounts as public operations.                                *)

\* One item of session.toolkits(): its slug and connection.isActive.
RouterItem(slug, isActive) == [slug |-> slug, isActive |-> isActive]

RouterCursor == <<"r","1">>

\* The router answers a page of toolkits with the cursor of a next page, a
\* cursor that need not advance, or throws.
RouterReplies ==
    { [throws |-> TRUE, items |-> <<>>, next |-> <<>>] }
    \cup { [throws |-> FALSE, items |-> items, next |-> next] :
             items \in { << RouterItem(<<"G","M">>, TRUE), RouterItem(<<"p","h">>, FALSE) >>,
                         << RouterItem(<<"s","n">>, TRUE), RouterItem(<<"g","m">>, FALSE) >> },
             next \in { <<>>, RouterCursor } }

\* The cursors a listing of accounts may be answered with.
BrokerCursors == { <<>>, CursorOf(2), CursorOf(3) }

StatusToolkits == { <<>>, <<<<" ","S","N"," ">>, <<"G","M">>, <<"s","n">>>>, <<<<"p","h">>, <<"g","m">>>>, <<<<"S","n">>>> }

\* getToolkitStateMap: the items of one page folded into the map, a sequence
\* of [key, value] in insertion order.
RECURSIVE StateMapWith(_, _)
StateMapWith(map, items) ==
    IF items = <<>> THEN map
    ELSE LET tk == Head(items)
             key == normalizeToolkitSlug(tk.slug)
             isActive == tk.isActive
         IN StateMapWith(
                IF \E i \in DOMAIN map : map[i].key = key
                THEN [i \in DOMAIN map |->
                        IF map[i].key = key
                        THEN [key |-> key, value |-> map[i].value \/ isActive]
                        ELSE map[i]]
                ELSE Append(map, [key |-> key, value |-> isActive]),
                Tail(items))

\* getActiveConnectedAccountToolkits: the items of one page added to the set,
\* a sequence in insertion order.
RECURSIVE ActiveToolkitsWith(_, _)
ActiveToolkitsWith(connected, items) ==
    IF items = <<>> THEN connected
    ELSE LET item == Head(items)
             slug == normalizeToolkitSlug(item.toolkit)
         IN ActiveToolkitsWith(
                IF slug = <<>> THEN connected
                ELSE IF item.status # <<>> /\ ToUpperCase(item.status) # StatusActive
                THEN connected
                ELSE Dedup(Append(connected, slug)),
                Tail(items))

\* One entry of getConnectionStatus's result.
ConnectionStatus(toolkit, connected, userId) ==
    [toolkit |-> toolkit, connected |-> connected, userId |-> userId]

\* A plausible slip: the accounts listed are left out of the status.
FinishStatusRouterOnly(l) ==
    LET StateOf(key) == \E i \in DOMAIN l.stateMap :
                            l.stateMap[i].key = key /\ l.stateMap[i].value
        active == SelectSeq(l.stateMap, LAMBDA e : e.value)
        connected ==
            Dedup(FilterAllowedToolkits(config, [i \in DOMAIN active |-> active[i].key]))
    IN IF l.requested # <<>>
       THEN Finish(l, Returned(TRUE, <<>>,
                [i \in DOMAIN l.requested |->
                    LET key == normalizeToolkitSlug(l.requested[i])
                    IN ConnectionStatus(l.requested[i], StateOf(key), l.uid)]))
       ELSE Finish(l, Returned(TRUE, <<>>,
                [i \in DOMAIN connected |-> ConnectionStatus(connected[i], TRUE, l.uid)]))

\* getConnectionStatus once both signals are in (client.ts 730-759).
FinishStatus(l) ==
    LET StateOf(key) == \E i \in DOMAIN l.stateMap :
                            l.stateMap[i].key = key /\ l.stateMap[i].value
        active == SelectSeq(l.stateMap, LAMBDA e : e.value)
        connected ==
            Dedup(FilterAllowedToolkits(config, [i \in DOMAIN active |-> active[i].key])
                  \o FilterAllowedToolkits(config, l.activeToolkits))
    IN IF l.requested # <<>>
       THEN Finish(l, Returned(TRUE, <<>>,
                [i \in DOMAIN l.requested |->
                    LET key == normalizeToolkitSlug(l.requested[i])
                    IN ConnectionStatus(l.requested[i],
                                        StateOf(key) \/ Includes(l.activeToolkits, key),
                                        l.uid)]))
       ELSE Finish(l, Returned(TRUE, <<>>,
                [i \in DOMAIN connected |-> ConnectionStatus(connected[i], TRUE, l.uid)]))

\* The loop over session.toolkits() ended (client.ts 729, 742, 1075).
AfterToolkits(l) ==
    IF l.op = "listToolkits"
    THEN Finish(l, Returned(TRUE, <<>>,
             Dedup(FilterAllowedToolkits(config,
                 [i \in DOMAIN l.routerItems |->
                     normalizeToolkitSlug(l.routerItems[i].slug)]))))
    ELSE StartLoop([l EXCEPT !.filters = [toolkits |-> normalizeToolkitList(l.requested),
                                          userIds |-> <<l.uid>>,
                                          statuses |-> <<StatusActive>>]],
                   "awaitActivePage", "connectedAccounts.list")

\* getConnectionStatus up to its first await (client.ts 719-720).
StartGetConnectionStatus(p, limit) ==
    /\ CanStartWithin(p, limit)
    /\ \E toolkits \in StatusToolkits, userId \in ExecUserIds :
        LET uid == getUserId(config, userId)
            l == [ProcIdle EXCEPT !.op = "getConnectionStatus", !.userId = userId,
                                  !.uid = uid, !.toolkitsArg = toolkits]
        IN Step(p, AcquireSession(config, sessionCache, hist, l))
    /\ nOps' = nOps + 1
    /\ UNCHANGED <<config, accounts, sessionCache, nextSession, polVars>>

\* listToolkits up to its first await (client.ts 1047-1050).
StartListToolkits(p, limit) ==
    /\ CanStartWithin(p, limit)
    /\ \E userId \in ExecUserIds :
        LET uid == getUserId(config, userId)
            l == [ProcIdle EXCEPT !.op = "listToolkits", !.userId = userId, !.uid = uid]
        IN Step(p, AcquireSession(config, sessionCache, hist, l))
    /\ nOps' = nOps + 1
    /\ UNCHANGED <<config, accounts, sessionCache, nextSession, polVars>>

\* session.toolkits() answers a page, or throws (client.ts 775-791, 1056-1072).
ToolkitsPageResponse(p) ==
    LET l == proc[p]
    IN /\ l.pc = "awaitToolkits"
       /\ \E reply \in RouterReplies : \E err \in ThrownWith(l, ErrBoom) :
            Step(p,
              IF reply.throws THEN OnThrow(l, err)
              ELSE LET l1 == [l EXCEPT !.routerItems = @ \o reply.items,
                                       !.stateMap = IF l.op = "getConnectionStatus"
                                                    THEN StateMapWith(@, reply.items)
                                                    ELSE @,
                                       !.returned = Append(@, reply.next)]
                   IN IF LoopContinues(reply.next, l.seenCursors)
                      THEN NextRequest(l1, reply.next, "awaitToolkits", "session.toolkits")
                      ELSE AfterToolkits(l1))
       /\ UNCHANGED <<config, accounts, sessionCache, nextSession, nOps, polVars>>

\* connectedAccounts.list answers getActiveConnectedAccountToolkits a page, or
\* throws and what was collected so far is returned (client.ts 807-841).
ActivePageResponse(p) ==
    LET l == proc[p]
        page == BrokerPage(BrokerSelect(accounts, l.filters), l.cursor)
    IN /\ l.pc = "awaitActivePage"
       /\ \/ \E next \in BrokerCursors \cup {page.next} :
                LET l1 == [l EXCEPT !.accountItems = @ \o page.items,
                                    !.activeToolkits = ActiveToolkitsWith(@, page.items),
                                    !.returned = Append(@, next)]
                IN Step(p, IF LoopContinues(next, l.seenCursors)
                           THEN NextRequest(l1, next, "awaitActivePage",
                                            "connectedAccounts.list")
                           ELSE FinishStatus(l1))
          \/ Step(p, FinishStatus([l EXCEPT !.listingThrew = TRUE]))
       /\ UNCHANGED <<config, accounts, sessionCache, nextSession, nOps, polVars>>

\* One tool of a search answer: its slug and the toolkit its schema names,
\* empty when it has no schema.
SearchEntry(slug, toolkit) == [slug |-> slug, toolkit |-> toolkit]

SearchEntries ==
    << SearchEntry(<<"G","M","_","S","E","N","D">>, <<>>), SearchEntry(<<"s","n","_","p","u","t">>, <<"S","N">>),
       SearchEntry(<<"G","M","_","S","E","N","D">>, <<>>), SearchEntry(<<"g","m","_","g","e","t">>, <<"g","m">>) >>

SearchReplies ==
    { MetaThrows(ErrBoom),
      MetaAnswer(FALSE, ErrBoom, None),
      MetaAnswer(TRUE, <<>>, None),
      MetaAnswer(TRUE, <<>>, Some(SearchEntries)) }

SearchToolkits == { <<>>, <<<<"G","M">>>> }
SearchLimits == { 0, 1 }

ErrSearchFailed == <<"S","e","a","r","c","h"," ","f","a","i","l","e","d">>

\* The loops of searchTools over the slugs of the answer (client.ts 337-372);
\* limit 0 stands for no limit.
RECURSIVE SearchResults(_, _, _, _, _)
SearchResults(entries, requestedToolkits, limit, seenSlugs, results) ==
    IF entries = <<>> THEN results
    ELSE LET e == Head(entries)
             toolkit == normalizeToolkitSlug(IF e.toolkit # <<>> THEN e.toolkit
                                             ELSE Split(e.slug, "_")[1])
         IN IF e.slug \in seenSlugs
            THEN SearchResults(Tail(entries), requestedToolkits, limit, seenSlugs, results)
            ELSE IF \/ ~isToolkitAllowed(config, toolkit)
                    \/ requestedToolkits # <<>> /\ ~Includes(requestedToolkits, toolkit)
            THEN SearchResults(Tail(entries), requestedToolkits, limit,
                               seenSlugs \cup {e.slug}, results)
            ELSE LET pushed == Append(results, [slug |-> e.slug, toolkit |-> toolkit])
                 IN IF limit # 0 /\ Len(pushed) >= limit THEN pushed
                    ELSE SearchResults(Tail(entries), requestedToolkits, limit,
                                       seenSlugs \cup {e.slug}, pushed)

\* searchTools up to its first await (client.ts 312-314).
StartSearchTools(p, limit) ==
    /\ CanStartWithin(p, limit)
    /\ \E toolkits \in SearchToolkits, max \in SearchLimits, userId \in ExecUserIds :
        LET uid == getUserId(config, userId)
            l == [ProcIdle EXCEPT !.op = "searchTools", !.userId = userId, !.uid = uid,
                                  !.toolkitsArg = toolkits,
                                  !.requested = normalizeToolkitList(toolkits),
                                  !.limit = max]
        IN Step(p, AcquireSession(config, sessionCache, hist, l))
    /\ nOps' = nOps + 1
    /\ UNCHANGED <<config, accounts, sessionCache, nextSession, polVars>>

\* The search call answers (client.ts 316-379).
SearchResponse(p) ==
    LET l == proc[p]
    IN /\ l.pc = "awaitSearch"
       /\ \E reply \in SearchReplies :
            LET l1 == [l EXCEPT !.searchReply = Some(reply)]
            IN Step(p,
                 IF reply.throws THEN OnThrow(l1, ErrorOf(reply.message))
                 ELSE IF ~reply.successful \/ reply.data = None
                 THEN OnThrow(l1, ErrorOf(IF reply.error # <<>> THEN reply.error
                                          ELSE ErrSearchFailed))
                 ELSE Finish(l1, Returned(TRUE, <<>>,
                          SearchResults(reply.data[1], l.requested, l.limit, {}, <<>>))))
       /\ UNCHANGED <<config, accounts, sessionCache, nextSession, nOps, polVars>>

\* The options of a listConnectedAccounts call: without a toolkits array, or
\* with one.
ListOptions ==
    { [toolkitsGiven |-> FALSE, toolkits |-> <<>>, userIds |-> <<>>, statuses |-> <<>>],
      [toolkitsGiven |-> TRUE, toolkits |-> <<<<"G","M">>, <<" ","s","n"," ">>>>, userIds |-> <<ScopeU1>>,
       statuses |-> <<<<"a","c","t","i","v","e">>>>],
      [toolkitsGiven |-> TRUE, toolkits |-> <<<<"g","m">>>>, userIds |-> <<>>,
       statuses |-> <<>>] }

\* listConnectedAccounts up to its first await (client.ts 861-868).
StartListConnectedAccounts(p, limit) ==
    /\ CanStartWithin(p, limit)
    /\ \E options \in ListOptions :
        LET l == [ProcIdle EXCEPT !.op = "listConnectedAccounts",
                                  !.toolkitsArg = options.toolkits]
        IN Step(p, StartListingOf(config, sessionCache, hist, l,
                                  [toolkits |-> options.toolkits,
                                   userIds |-> options.userIds,
                                   statuses |-> options.statuses],
                                  options.toolkitsGiven))
    /\ nOps' = nOps + 1
    /\ UNCHANGED <<config, accounts, sessionCache, nextSession, polVars>>

\* findActiveUserIdsForToolkit up to its first await (client.ts 887-893).
StartFindActiveUserIds(p, limit) ==
    /\ CanStartWithin(p, limit)
    /\ \E toolkit \in ConnToolkits :
        LET normalizedToolkit == normalizeToolkitSlug(toolkit)
            l == [ProcIdle EXCEPT !.op = "findActiveUserIdsForToolkit",
                                  !.toolkit = normalizedToolkit]
        IN Step(p, IF ~isToolkitAllowed(config, normalizedToolkit)
                   THEN Finish(l, Returned(TRUE, <<>>, <<>>))
                   ELSE StartListing(config, sessionCache, hist, l,
                            [toolkits |-> <<normalizedToolkit>>, userIds |-> <<>>,
                             statuses |-> <<StatusActive>>]))
    /\ nOps' = nOps + 1
    /\ UNCHANGED <<config, accounts, sessionCache, nextSession, polVars>>

\* A listing of accounts is answered its page with a cursor that need not be
\* the one of the next page.
ListingPageStrays(p) ==
    LET l == proc[p]
        page == BrokerPage(BrokerSelect(accounts, l.filters), l.cursor)
    IN /\ l.pc \in {"awaitRawPage", "awaitFallbackPage"}
       /\ \E next \in BrokerCursors :
            Step(p, PageTurn(l, l.pc = "awaitRawPage",
                             [items |-> page.items, next |-> next]))
       /\ UNCHANGED <<config, accounts, sessionCache, nextSession, nOps, polVars>>

-----------------------------------------------------------------------------
(* SpecStatus: one caller and one of the operations that report            *)
(* connections, toolkits, tools and accounts, against a router and a       *)
(* broker whose cursors need not advance.                                  *)

StatusRawConfigs ==
    { RawConfig(<<>>, <<>>, <<>>, <<>>, FALSE, <<>>),
      RawConfig(<<>>, <<<<"G","M">>>>, <<>>, <<>>, FALSE, <<>>),
      RawConfig(<<<<"g","m">>, <<"p","h">>>>, <<>>, <<>>, <<>>, FALSE, <<>>) }

StatusInit == InitWith(StatusRawConfigs, { BrokerAccounts(1), BrokerAccounts(MaxActive) })

StatusNext ==
    \/ StartGetConnectionStatus(1, MaxCallOps)
    \/ StartListToolkits(1, MaxCallOps)
    \/ StartSearchTools(1, MaxCallOps)
    \/ StartListConnectedAccounts(1, MaxCallOps)
    \/ StartFindActiveUserIds(1, MaxCallOps)
    \/ CreateSessionResponse(1)
    \/ CreateSessionRetryResponse(1)
    \/ ToolkitsPageResponse(1)
    \/ ActivePageResponse(1)
    \/ SearchResponse(1)
    \/ RawPageResponse(1)
    \/ FallbackPageResponse(1)
    \/ ListingPageStrays(1)
    \/ Settle(1)

SpecStatus == StatusInit /\ [][StatusNext]_vars

-----------------------------------------------------------------------------
(* SpecDisconnect: one caller that connects and disconnects, against a     *)
(* broker holding no, one or several ACTIVE accounts of the scope.         *)

MaxDisconnectOps == 2

DisconnectRawConfigs ==
    { RawConfig(<<>>, <<>>, <<>>, <<>>, FALSE, <<>>),
      RawConfig(<<>>, <<<<"G","M">>>>, <<>>, <<>>, FALSE, <<>>),
      RawConfig(<<>>, <<>>, <<>>, <<>>, TRUE, <<>>),
      RawConfig(<<<<"g","m">>>>, <<>>, <<>>, <<>>, FALSE, <<>>) }

DisconnectInit ==
    InitWith(DisconnectRawConfigs, { BrokerAccounts(k) : k \in 0..MaxActive })

DisconnectNext ==
    \/ StartCreateConnection(1, MaxDisconnectOps)
    \/ StartDisconnectToolkit(1, MaxDisconnectOps)
    \/ RawPageResponse(1)
    \/ FallbackPageResponse(1)
    \/ CreateSessionResponse(1)
    \/ CreateSessionRetryResponse(1)
    \/ AuthorizeResponse(1)
    \/ DeleteResponse(1)
    \/ Settle(1)

SpecDisconnect == DisconnectInit /\ [][DisconnectNext]_vars

-----------------------------------------------------------------------------
(* SpecOwner: executeTool with an explicit account id, against a broker    *)
(* that also holds accounts whose owner, toolkit or status it does not     *)
(* report (an empty field).                                                *)

MaxOwnerOps == 1

OwnerBroker ==
    BrokerAccounts(1)
    \o << Account(<<"c","n","1">>, <<"g","m">>, <<>>, StatusActive),
          Account(<<"c","t","1">>, <<>>, ScopeU1, StatusActive),
          Account(<<"c","s","1">>, <<"g","m">>, ScopeU1, <<>>) >>

OwnerAccountIds == { <<"c","a","1">>, <<"c","b","1">>, <<"c","x","1">>, <<"c","e","1">>, <<"c","n","1">>, <<"c","t","1">>, <<"c","s","1">>, <<"z","z","9">> }

OwnerInit == InitWith(ScopeRawConfigs, { OwnerBroker })

OwnerExecuteToolStart == StartExecuteTool(1, MaxOwnerOps, OwnerAccountIds)

OwnerNext ==
    \/ OwnerExecuteToolStart
    \/ AccountGetResponse(1)
    \/ CreateSessionResponse(1)
    \/ CreateSessionRetryResponse(1)
    \/ MetaResponse(1)
    \/ DirectFallbackResponse(1)
    \/ HintedRetryResponse(1)
    \/ Settle(1)

SpecOwner == OwnerInit /\ [][OwnerNext]_vars

-----------------------------------------------------------------------------
(* SpecPolicy: the policy functions on drawn configurations and inputs.    *)

PolToolkitLists ==
    { <<>>, <<<<" ","G","M"," ">>>>, <<<<"s","n">>>>, <<<<"g","m">>, <<"S","n">>, <<"G","M">>>>, <<<<" "," ">>>> }

PolToolSlugLists ==
    { <<>>, <<<<"g","m","_","d","e","l","e","t","e","_","x">>>>, <<<<"G","M","_","G","E","T"," ">>>>, <<<<"g","m","_","d","e","l","e","t","e","_","x">>, <<"G","M","_","G","E","T">>>> }

PolRawConfigs ==
    [ allowedToolkits : PolToolkitLists, blockedToolkits : PolToolkitLists,
      allowedToolSlugs : PolToolSlugLists, blockedToolSlugs : PolToolSlugLists,
      readOnlyMode : BOOLEAN, defaultUserId : {<<>>},
      sessionTags : {<<>>} ]

PolToolkits == { <<"g","m">>, <<" ","G","M">>, <<"s","n">>, <<"p","h">>, <<>>, <<" "," ">> }

PolSlugs ==
    { <<"G","M","_","G","E","T">>, <<" ","g","m","_","d","e","l","e","t","e","_","x"," ">>, <<"G","M","_","R","E","S","E","T">>, <<"G","M","_","S","E","T","_","X">>, <<"S","N","_","_","S","E","N","D">>, <<>>, <<" ">> }

PolicyInit ==
    /\ config \in { NewClientConfig(raw) : raw \in PolRawConfigs }
    /\ polToolkit \in PolToolkits
    /\ polSlug \in PolSlugs
    /\ polOut = NoneRun
    /\ hintIn = NoHintInput
    /\ tool = NoToolCall
    /\ accounts = <<>>
    /\ sessionCache = <<>>
    /\ nextSession = 0
    /\ proc = <<>>
    /\ nOps = 0
    /\ hist = <<>>

CheckToolkit ==
    /\ ~polOut.toolkit.done
    /\ polOut' = [polOut EXCEPT !.toolkit =
                     [done |-> TRUE, allowed |-> isToolkitAllowed(config, polToolkit)]]
    /\ UNCHANGED <<config, polToolkit, polSlug, hintIn, tool, clientVars>>

CheckToolSlug ==
    /\ ~polOut.slug.done
    /\ polOut' = [polOut EXCEPT !.slug =
                     [done |-> TRUE, error |-> getToolSlugRestrictionError(config, polSlug)]]
    /\ UNCHANGED <<config, polToolkit, polSlug, hintIn, tool, clientVars>>

PolicyNext == CheckToolkit \/ CheckToolSlug

SpecPolicy == PolicyInit /\ [][PolicyNext]_vars

-----------------------------------------------------------------------------
(* SpecHint: the hinted-identifier retry on drawn error texts and          *)
(* arguments.                                                              *)

LongLiteralLen == 65

Backquoted(literal) == <<"backtick">> \o literal \o <<"backtick">>

\* Error texts: the phrases in several spellings, with no, one or two
\* backquoted literals, and literals that are long or hold white space.
HintTexts ==
    { ErrOnlyAllowed,
      <<"O","N","L","Y"," ","A","L","L","O","W","E","D"," ","T","O"," ","A","C","C","E","S","S"," ","backtick","@","m","e","backtick">>,
      <<"Y","o","u"," ","a","r","e"," ","a","l","l","o","w","e","d"," ","t","o"," ","a","c","c","e","s","s"," ","t","h","e"," ","backtick","@","m","e","backtick"," ","u","s","e","r">>,
      <<"o","n","l","y"," ","a","l","l","o","w","e","d"," ","t","o"," ","a","c","c","e","s","s"," ","backtick","@","m","e","backtick",","," ","n","o","t"," ","backtick","x","1","backtick">>,
      <<"o","n","l","y"," ","a","l","l","o","w","e","d"," ","t","o"," ","a","c","c","e","s","s"," ","backtick","m","y"," ","i","d","backtick">>,
      <<"o","n","l","y"," ","a","l","l","o","w","e","d"," ","t","o"," ","a","c","c","e","s","s"," ","backtick"," ","@","m","e"," ","backtick">>,
      <<"o","n","l","y"," ","a","l","l","o","w","e","d"," ","t","o"," ","a","c","c","e","s","s"," ","backtick","\r","@","m","e","\r","backtick">>,
      <<"o","n","l","y"," ","a","l","l","o","w","e","d"," ","t","o"," ","a","c","c","e","s","s"," ","backtick","a","\r","b","backtick">>,
      <<"o","n","l","y"," ","a","l","l","o","w","e","d"," ","t","o"," ","a","c","c","e","s","s"," ","backtick","a","\f","b","backtick">>,
      <<"o","n","l","y"," ","a","l","l","o","w","e","d"," ","t","o"," ","a","c","c","e","s","s"," ","@","m","e">>,
      <<"A","c","c","e","s","s"," ","d","e","n","i","e","d"," ","f","o","r"," ","backtick","@","m","e","backtick">>,
      <<"o","n","l","y"," ","a","l","l","o","w","e","d"," ","t","o"," ","a","c","c","e","s","s"," ">> \o Backquoted([i \in 1..(LongLiteralLen - 1) |-> "a"]),
      <<"o","n","l","y"," ","a","l","l","o","w","e","d"," ","t","o"," ","a","c","c","e","s","s"," ">> \o Backquoted([i \in 1..LongLiteralLen |-> "a"]),
      ErrBoom }

ErrMissingFields == <<"F","o","l","l","o","w","i","n","g"," ","f","i","e","l","d","s"," ","a","r","e"," ","m","i","s","s","i","n","g",":"," ","{","'","u","u","i","d","'",","," ","'","o","r","g","'","}">>
ErrMissingFieldNextLine == <<"f","o","l","l","o","w","i","n","g"," ","f","i","e","l","d","s"," ","a","r","e"," ","m","i","s","s","i","n","g",":","\r","\n","{","u","u","i","d","}">>

HintMetaData ==
    { None,
      MetaResults(ErrMissingField, ToolResponse(FALSE, <<>>, <<>>)),
      MetaResults(ErrMissingFields, ToolResponse(FALSE, <<>>, <<>>)),
      MetaResults(ErrMissingFieldNextLine, ToolResponse(FALSE, <<>>, <<>>)) }

HintAdditionalErrors == { <<>>, <<"U","s","e"," ","backtick","x","1","backtick">> }

HintArgs ==
    ExecArgs
    \cup { << [key |-> <<"u","u","i","d">>, isString |-> TRUE, value |-> <<"x">>],
              [key |-> <<"o","r","g">>, isString |-> TRUE, value |-> <<"y">>] >>,
            << [key |-> <<"u","u","i","d">>, isString |-> TRUE, value |-> <<"@","m","e">>] >>,
            << [key |-> <<"l","i","m","i","t">>, isString |-> FALSE, value |-> <<"5">>] >>,
            << [key |-> <<"l","i","m","i","t">>, isString |-> FALSE, value |-> <<"5">>],
               [key |-> <<"u","u","i","d">>, isString |-> TRUE, value |-> <<"x">>] >> }

HintInit ==
    /\ config = NewClientConfig(RawConfig(<<>>, <<>>, <<>>, <<>>, FALSE, <<>>))
    /\ hintIn \in [ args : HintArgs, metaError : HintTexts, metaData : HintMetaData,
                     additionalError : HintAdditionalErrors ]
    /\ polToolkit = <<>>
    /\ polSlug = <<>>
    /\ polOut = NoneRun
    /\ tool = NoToolCall
    /\ accounts = <<>>
    /\ sessionCache = <<>>
    /\ nextSession = 0
    /\ proc = <<>>
    /\ nOps = 0
    /\ hist = <<>>

\* tryHintedIdentifierRetry applied up to its execute call.
CheckHint ==
    /\ ~polOut.hint.done
    /\ polOut' = [polOut EXCEPT !.hint =
                     [done |-> TRUE,
                      retryArgs |-> HintedRetryArgs(hintIn.args, hintIn.metaError,
                                                    hintIn.metaData,
                                                    hintIn.additionalError)]]
    /\ UNCHANGED <<config, polToolkit, polSlug, hintIn, tool, clientVars>>

HintNext == CheckHint

SpecHint == HintInit /\ [][HintNext]_vars

-----------------------------------------------------------------------------
(* SpecTools: the agent-facing tools composio_execute_tool                  *)
(* (createComposioExecuteTool) and composio_manage_connections             *)
(* (tools/connections.ts), with the client as their environment: each      *)
(* client operation they call answers a value or throws.                   *)

\* A parameter as the agent gives it: a string, or something that is not a
\* string (absent when the value is empty).
Param(isString, value) == [isString |-> isString, value |-> value]

ExecuteToolName == "composio_execute_tool"
ConnectionsToolName == "composio_manage_connections"

ActionList == <<"l","i","s","t">>
ActionStatus == <<"s","t","a","t","u","s">>
ActionCreate == <<"c","r","e","a","t","e">>
ActionAccounts == <<"a","c","c","o","u","n","t","s">>

ToolActions == { <<>>, ActionList, ActionStatus, ActionCreate, ActionAccounts, <<"r","e","m","o","v","e">> }
ToolUserIds ==
    { Param(FALSE, <<>>), Param(FALSE, <<"7">>), Param(TRUE, <<>>), Param(TRUE, <<" "," ">>),
      Param(TRUE, <<"u","1">>), Param(TRUE, <<" ","u","1"," ">>) }
ToolSlugParams == { <<>>, <<" ","g","m","_","g","e","t"," ">> }
ToolToolkitParams == { <<>>, <<" ","g","m"," ">> }

\* A parameter that may be an array: its items when it is one.
NotArray == [isArray |-> FALSE, items |-> <<>>]
ArrayParam(items) == [isArray |-> TRUE, items |-> items]

ToolToolkitsParams ==
    { NotArray, ArrayParam(<<>>),
      ArrayParam(<<Param(TRUE, <<"g","m">>), Param(TRUE, <<" ","s","n"," ">>), Param(TRUE, <<>>),
                   Param(TRUE, <<" "," ">>), Param(FALSE, <<"3">>)>>) }
ToolStatusesParams ==
    { NotArray,
      ArrayParam(<<Param(TRUE, <<"I","N","I","T","I","A","T","E","D">>), Param(TRUE, <<>>), Param(FALSE, <<"1">>)>>) }

\* The params object of one tool call; action, tool_slug and toolkit are
\* strings, the empty one standing for an absent one too (params.x || "");
\* toolkits and statuses are arrays of anything, or no arrays.
ToolParams ==
    [ name : {ExecuteToolName, ConnectionsToolName}, action : ToolActions,
      user_id : ToolUserIds, tool_slug : ToolSlugParams, toolkit : ToolToolkitParams,
      toolkits : ToolToolkitsParams, statuses : ToolStatusesParams ]

\* items.filter((t) => typeof t === "string" && t.trim() !== "")
NonBlankStrings(items) ==
    LET kept == SelectSeq(items, LAMBDA t : t.isString /\ Trim(t.value) # <<>>)
    IN [i \in DOMAIN kept |-> kept[i].value]

\* The toolkits the accounts and status actions hand to the client: the
\* trimmed params.toolkit when it is a non-blank string, else the non-blank
\* strings of params.toolkits when it is an array, else undefined (the empty
\* list here).
ToolkitsParam(params) ==
    IF Trim(params.toolkit) # <<>> THEN <<Trim(params.toolkit)>>
    ELSE IF params.toolkits.isArray THEN NonBlankStrings(params.toolkits.items)
    ELSE <<>>

\* The statuses the accounts action asks for: ACTIVE unless params.statuses
\* is an array.
StatusesParam(params) ==
    IF params.statuses.isArray THEN NonBlankStrings(params.statuses.items)
    ELSE <<<<"A","C","T","I","V","E">>>>

\* The options of the accounts action's listConnectedAccounts call.
AccountsOptions(params, userId) ==
    [ toolkits |-> ToolkitsParam(params),
      userIds |-> IF userId # <<>> THEN <<userId>> ELSE <<>>,
      statuses |-> StatusesParam(params) ]

ToolCalled(params) ==
    [ pc |-> "called", params |-> params, action |-> <<>>, userId |-> <<>>,
      calls |-> <<>>, response |-> None, statuses |-> <<>>, pending |-> <<>>,
      hints |-> <<>> ]

ErrUserIdRequired == <<"u","s","e","r","_","i","d"," ","i","s"," ","r","e","q","u","i","r","e","d">>
ErrUserIdRequiredForAction == <<"u","s","e","r","_","i","d"," ","i","s"," ","r","e","q","u","i","r","e","d"," ","f","o","r"," ","t","h","i","s"," ","a","c","t","i","o","n">>
ErrToolkitRequiredForCreate == <<"t","o","o","l","k","i","t"," ","i","s"," ","r","e","q","u","i","r","e","d"," ","f","o","r"," ","'","c","r","e","a","t","e","'"," ","a","c","t","i","o","n">>

\* The tool returns { content, details }: details.error when it has one, and
\* the other fields of details.
Respond(t, error, body) ==
    [t EXCEPT !.pc = "done", !.response = Some([error |-> error, body |-> body])]

\* The tool awaits an operation of the client.
CallClient(t, op, userId, arg) ==
    [t EXCEPT !.pc = "awaitClient",
              !.calls = Append(@, [op |-> op, userId |-> userId, arg |-> arg])]

\* typeof params.user_id === "string" ? params.user_id.trim() : ""
UserIdParam(params) ==
    IF params.user_id.isString THEN Trim(params.user_id.value) ELSE <<>>

\* composio_execute_tool up to its await (createComposioExecuteTool.execute).
ExecuteToolExecute(t) ==
    LET toolSlug == Trim(t.params.tool_slug)
        userId == UserIdParam(t.params)
    IN IF toolSlug = <<>>
       THEN Respond(t, Some(ErrToolSlugRequired), <<>>)
       ELSE IF userId = <<>>
       THEN Respond(t, Some(ErrUserIdRequired), <<>>)
       ELSE CallClient([t EXCEPT !.userId = userId], "executeTool", userId, toolSlug)

\* A plausible slip: the status action is left out of the actions that
\* require user_id.
ConnectionsToolExecuteStatusUnscoped(t) ==
    LET action == IF t.params.action = <<>> THEN ActionStatus ELSE t.params.action
        userId == UserIdParam(t.params)
        requiresUserId == action \in {ActionList, ActionCreate}
        toolkit == Trim(t.params.toolkit)
        toolkits == ToolkitsParam(t.params)
        t1 == [t EXCEPT !.action = action, !.userId = userId]
    IN IF requiresUserId /\ userId = <<>>
       THEN Respond(t1, Some(ErrUserIdRequiredForAction), [action |-> action])
       ELSE IF action = ActionList
       THEN CallClient(t1, "listToolkits", userId, <<>>)
       ELSE IF action = ActionAccounts
       THEN CallClient(t1, "listConnectedAccounts", userId,
                       AccountsOptions(t.params, userId))
       ELSE IF action = ActionCreate
       THEN IF toolkit = <<>>
            THEN Respond(t1, Some(ErrToolkitRequiredForCreate), <<>>)
            ELSE CallClient(t1, "createConnection", userId, toolkit)
       ELSE CallClient(t1, "getConnectionStatus", userId, toolkits)

\* composio_manage_connections up to its first await (tools/connections.ts
\* 79-92 and the head of each case); toolkits undefined is the empty list.
ConnectionsToolExecute(t) ==
    LET action == IF t.params.action = <<>> THEN ActionStatus ELSE t.params.action
        userId == UserIdParam(t.params)
        requiresUserId == action \in {ActionList, ActionStatus, ActionCreate}
        toolkit == Trim(t.params.toolkit)
        toolkits == ToolkitsParam(t.params)
        t1 == [t EXCEPT !.action = action, !.userId = userId]
    IN IF requiresUserId /\ userId = <<>>
       THEN Respond(t1, Some(ErrUserIdRequiredForAction), [action |-> action])
       ELSE IF action = ActionList
       THEN CallClient(t1, "listToolkits", userId, <<>>)
       ELSE IF action = ActionAccounts
       THEN CallClient(t1, "listConnectedAccounts", userId,
                       AccountsOptions(t.params, userId))
       ELSE IF action = ActionCreate
       THEN IF toolkit = <<>>
            THEN Respond(t1, Some(ErrToolkitRequiredForCreate), <<>>)
            ELSE CallClient(t1, "createConnection", userId, toolkit)
       ELSE CallClient(t1, "getConnectionStatus", userId, toolkits)

\* What the client's operations answer to the tools.
ToolClientReplies(op) ==
    IF op \in {"executeTool", "createConnection"}
    THEN { Returned(TRUE, <<>>, AuthUrl), Returned(FALSE, ErrBoom, <<>>),
           Returned(FALSE, ErrBoom, <<"d","9">>) }
    ELSE IF op = "listToolkits" THEN { <<>>, <<<<"g","m">>, <<"s","n">>>> }
    ELSE IF op = "listConnectedAccounts" THEN { <<>>, BrokerAccounts(1) }
    ELSE IF op = "getConnectionStatus"
    THEN { <<>>, <<ConnectionStatus(<<"g","m">>, TRUE, ScopeU1)>>,
           <<ConnectionStatus(<<"g","m">>, FALSE, ScopeU1),
             ConnectionStatus(<<"s","n">>, FALSE, ScopeU1)>> }
    ELSE { <<>>, <<ScopeU1>>, <<ScopeU1, ScopeU2>> }

HintMessage(toolkit, otherUserIds) ==
    <<"'">> \o toolkit \o <<"'"," ","h","a","s"," ","A","C","T","I","V","E"," ","a","c","c","o","u","n","t","s"," ","u","n","d","e","r"," ","o","t","h","e","r"," ","u","s","e","r","_","i","d","(","s",")",":"," ">>
    \o Join(otherUserIds, <<","," ">>)
    \o <<"."," ","U","s","e"," ","a"," ","m","a","t","c","h","i","n","g"," ","u","s","e","r","_","i","d"," ","t","o"," ","c","h","e","c","k"," ","t","h","a","t"," ","s","c","o","p","e",".">>

\* The status action's loop over the disconnected toolkits, and its response
\* (tools/connections.ts 189-216).
StatusHints(t) ==
    IF t.pending # <<>>
    THEN CallClient(t, "findActiveUserIdsForToolkit", <<>>, Head(t.pending))
    ELSE Respond(t, None,
            [ action |-> ActionStatus,
              checked_user_id |-> IF t.statuses = <<>> THEN <<>>
                                  ELSE t.statuses[1].userId,
              count |-> Len(t.statuses),
              connections |-> [i \in DOMAIN t.statuses |->
                                  [toolkit |-> t.statuses[i].toolkit,
                                   connected |-> t.statuses[i].connected]],
              hints |-> t.hints ])

\* The tool goes on with what the client answered.
AfterClient(t, call, reply) ==
    IF call.op = "executeTool"
    THEN IF reply.success
         THEN Respond(t, None, [tool_slug |-> call.arg, success |-> TRUE,
                                data |-> reply.data])
         ELSE Respond(t, Some(reply.error),
                      [tool_slug |-> call.arg, success |-> FALSE])
    ELSE IF call.op = "listToolkits"
    THEN Respond(t, None, [action |-> ActionList, count |-> Len(reply),
                           toolkits |-> reply])
    ELSE IF call.op = "listConnectedAccounts"
    THEN Respond(t, None,
            [action |-> ActionAccounts, count |-> Len(reply),
             accounts |-> [i \in DOMAIN reply |->
                              [id |-> reply[i].id, toolkit |-> reply[i].toolkit,
                               user_id |-> reply[i].userId,
                               status |-> reply[i].status]]])
    ELSE IF call.op = "createConnection"
    THEN IF ~reply.success
         THEN Respond(t, Some(reply.error),
                      [action |-> ActionCreate, toolkit |-> call.arg])
         ELSE Respond(t, None,
                      [action |-> ActionCreate, toolkit |-> call.arg,
                       authUrl |-> reply.data])
    ELSE IF call.op = "getConnectionStatus"
    THEN StatusHints([t EXCEPT
            !.statuses = reply,
            !.pending = LET disconnected == SelectSeq(reply, LAMBDA s : ~s.connected)
                        IN [i \in DOMAIN disconnected |-> disconnected[i].toolkit]])
    ELSE LET otherUserIds == SelectSeq(reply, LAMBDA uid : uid # t.userId)
         IN StatusHints([t EXCEPT
                !.pending = Tail(@),
                !.hints = IF otherUserIds = <<>> THEN @
                          ELSE Append(@, [toolkit |-> call.arg,
                                          connected_user_ids |-> otherUserIds,
                                          message |-> HintMessage(call.arg,
                                                                  otherUserIds)])])

\* The catch of either tool: the message becomes details.error.
AfterClientThrew(t, message) ==
    IF t.params.name = ExecuteToolName
    THEN Respond(t, Some(message),
                 [tool_slug |-> Trim(t.params.tool_slug), success |-> FALSE])
    ELSE Respond(t, Some(message), [action |-> t.action])

ToolsInit ==
    /\ config = NewClientConfig(RawConfig(<<>>, <<>>, <<>>, <<>>, FALSE, <<>>))
    /\ tool \in { ToolCalled(params) : params \in ToolParams }
    /\ polToolkit = <<>>
    /\ polSlug = <<>>
    /\ polOut = NoneRun
    /\ hintIn = NoHintInput
    /\ accounts = <<>>
    /\ sessionCache = <<>>
    /\ nextSession = 0
    /\ proc = <<>>
    /\ nOps = 0
    /\ hist = <<>>

\* The tool's execute runs up to its first await or its early return.
ToolExecute ==
    /\ tool.pc = "called"
    /\ tool' = IF tool.params.name = ExecuteToolName THEN ExecuteToolExecute(tool)
               ELSE ConnectionsToolExecute(tool)
    /\ UNCHANGED <<config, polToolkit, polSlug, polOut, hintIn, clientVars>>

\* The client operation the tool awaits answers.
ClientAnswers ==
    /\ tool.pc = "awaitClient"
    /\ LET call == tool.calls[Len(tool.calls)]
       IN \E reply \in ToolClientReplies(call.op) :
            tool' = AfterClient(tool, call, reply)
    /\ UNCHANGED <<config, polToolkit, polSlug, polOut, hintIn, clientVars>>

\* The client operation the tool awaits throws.
ClientThrows ==
    /\ tool.pc = "awaitClient"
    /\ tool' = AfterClientThrew(tool, ErrBoom)
    /\ UNCHANGED <<config, polToolkit, polSlug, polOut, hintIn, clientVars>>

ToolsNext == ToolExecute \/ ClientAnswers \/ ClientThrows

SpecTools == ToolsInit /\ [][ToolsNext]_vars

-----------------------------------------------------------------------------
(* SpecSlug: normalizeToolkitSlug on every string of a small alphabet of   *)
(* white space, upper-case and lower-case characters and a digit.          *)

MaxSlugLen == 3

SlugChars == {" ", "\t", "G", "m", "1"}

RECURSIVE StringsUpTo(_)
StringsUpTo(n) ==
    IF n = 0 THEN { <<>> }
    ELSE LET shorter == StringsUpTo(n - 1)
         IN shorter \cup { Append(s, c) : s \in shorter, c \in SlugChars }

SlugInputs ==
    StringsUpTo(MaxSlugLen)
    \cup { <<" "," ","G","M","a","i","l"," ">>, <<"\r"," ","g","m","\r">>, <<"\f","G","m","\f">>, <<"vtab","nbsp","g","m","u2028","bom">>, <<"g","\r","m">> }

SlugInit ==
    /\ config = NewClientConfig(RawConfig(<<>>, <<>>, <<>>, <<>>, FALSE, <<>>))
    /\ polToolkit \in SlugInputs
    /\ polSlug = <<>>
    /\ polOut = NoneRun
    /\ hintIn = NoHintInput
    /\ tool = NoToolCall
    /\ accounts = <<>>
    /\ sessionCache = <<>>
    /\ nextSession = 0
    /\ proc = <<>>
    /\ nOps = 0
    /\ hist = <<>>

\* normalizeToolkitSlug applied to the input, and to its own result.
NormalizeSlug ==
    /\ ~polOut.toolkit.done
    /\ polOut' = [polOut EXCEPT !.toolkit =
                     [done |-> TRUE,
                      normalized |-> normalizeToolkitSlug(polToolkit),
                      again |-> normalizeToolkitSlug(normalizeToolkitSlug(polToolkit))]]
    /\ UNCHANGED <<config, polToolkit, polSlug, hintIn, tool, clientVars>>

SlugNext == NormalizeSlug

SpecSlug == SlugInit /\ [][SlugNext]_vars

-----------------------------------------------------------------------------
(* SpecKeys: one caller whose scopes are a user id, a user id that the     *)
(* first is a prefix of, and a user id spelled like a cache key with an    *)
(* account pin; two operations, so that a session cached by the first is   *)
(* met by the second.                                                      *)

MaxKeyOps == 2

ScopeU10 == <<"u","1","0">>
ScopeLikeKey == <<"u","1",":",":","c","a",":","g","m","=","c","a","1">>

KeyUserIds == { ScopeU1, ScopeU10, ScopeLikeKey }

KeysInit ==
    InitWith({ RawConfig(<<>>, <<>>, <<>>, <<>>, FALSE, <<>>) }, { BrokerAccounts(1) })

KeysNext ==
    \/ StartExecuteToolAs(1, MaxKeyOps, { <<>> }, KeyUserIds)
    \/ StartCreateConnectionAs(1, MaxKeyOps, KeyUserIds)
    \/ StartDisconnectToolkitAs(1, MaxKeyOps, KeyUserIds)
    \/ RawPageResponse(1)
    \/ FallbackPageResponse(1)
    \/ CreateSessionResponse(1)
    \/ MetaResponse(1)
    \/ DirectFallbackResponse(1)
    \/ HintedRetryResponse(1)
    \/ AuthorizeResponse(1)
    \/ DeleteResponse(1)
    \/ Settle(1)

SpecKeys == KeysInit /\ [][KeysNext]_vars

-----------------------------------------------------------------------------
(* SpecConfig: one createConnection by clients whose configuration sets    *)
(* toolkit lists, block-listed tool slugs, behaviour tags and read-only    *)
(* mode in every combination, to see the session configurations they send. *)

MaxConfigOps == 1

ConfigToolkitLists == { <<>>, <<<<"g","m">>>>, <<<<"G","M">>, <<"p","h">>>> }
ConfigBlockedToolkitLists == { <<>>, <<<<"g","m">>>>, <<<<" ","S","N"," ">>>> }
ConfigBlockedToolSlugLists ==
    { <<>>, <<<<"g","m","_","d","e","l","e","t","e","_","x">>>>,
      <<<<"G","M","_","D","E","L","E","T","E","_","X">>, <<"S","N","_","S","E","N","D">>, <<"g","m","_","g","e","t">>, <<"_","G","E","T">>, <<"G","M","_","D","E","L","E","T","E","_","X">>>> }
ConfigSessionTagLists ==
    { <<>>, <<<<"d","e","s","t","r","u","c","t","i","v","e","H","i","n","t">>>>,
      <<<<"r","e","a","d","O","n","l","y","H","i","n","t">>, <<"d","e","s","t","r","u","c","t","i","v","e","H","i","n","t">>, <<"b","o","g","u","s","H","i","n","t">>>> }

ConfigRawConfigs ==
    { [RawConfig(allowed, blocked, <<>>, slugs, readOnly, <<>>)
          EXCEPT !.sessionTags = tags] :
        allowed \in ConfigToolkitLists, blocked \in ConfigBlockedToolkitLists,
        slugs \in ConfigBlockedToolSlugLists, readOnly \in BOOLEAN,
        tags \in ConfigSessionTagLists }

ConfigInit == InitWith(ConfigRawConfigs, { BrokerAccounts(1) })

ConfigNext ==
    \/ StartCreateConnection(1, MaxConfigOps)
    \/ CreateSessionResponse(1)
    \/ CreateSessionRetryResponse(1)
    \/ AuthorizeResponse(1)
    \/ Settle(1)

SpecConfig == ConfigInit /\ [][ConfigNext]_vars

-----------------------------------------------------------------------------
(* Claims on the policy engine (SpecPolicy).                               *)

Elems(arr) == { arr[i] : i \in DOMAIN arr }

RuleOfExpected(cfg, n) ==
    IF cfg.allowedToolSlugs # <<>> /\ n \notin Elems(cfg.allowedToolSlugs) THEN "allow-list"
    ELSE IF n \in Elems(cfg.blockedToolSlugs) THEN "block-list"
    ELSE IF /\ cfg.readOnlyMode
            /\ n \notin Elems(cfg.allowedToolSlugs)
            /\ \E t \in Elems(Split(n, "_")) : t \in DESTRUCTIVE_TOOL_VERBS
         THEN "read-only"
    ELSE "allow"

RuleOfError(err) ==
    IF err = NoError THEN "allow"
    ELSE IF StrIncludes(err, <<"i","s"," ","n","o","t"," ","i","n"," ","a","l","l","o","w","e","d","T","o","o","l","S","l","u","g","s">>) THEN "allow-list"
    ELSE IF StrIncludes(err, <<"i","s"," ","b","l","o","c","k","e","d"," ","b","y"," ","p","l","u","g","i","n"," ","c","o","n","f","i","g","u","r","a","t","i","o","n">>) THEN "block-list"
    ELSE IF StrIncludes(err, <<"w","a","s"," ","b","l","o","c","k","e","d"," ","b","y"," ","r","e","a","d","O","n","l","y","M","o","d","e">>) THEN "read-only"
    ELSE "other"

\* C6 as stated: for every toolkit, isToolkitAllowed is true iff the
\* normalized toolkit is not in the block-list B and the allow-list A is empty
\* or holds it.
C6_AsStated ==
    polOut.toolkit.done =>
        LET n == normalizeToolkitSlug(polToolkit)
        IN polOut.toolkit.allowed
             = ( /\ n \notin Elems(config.blockedToolkits)
                 /\ (config.allowedToolkits = <<>> \/ n \in Elems(config.allowedToolkits)) )

\* C6 amended: for every toolkit whose normalized name is not empty,
\* isToolkitAllowed is true iff the name is not in B and (A is empty or the
\* name is in A), so a toolkit in both A and B is not allowed; a toolkit whose
\* normalized name is empty is never allowed.
C6_ToolkitAllowedIff ==
    polOut.toolkit.done =>
        LET n == normalizeToolkitSlug(polToolkit)
        IN IF n = <<>> THEN ~polOut.toolkit.allowed
           ELSE polOut.toolkit.allowed
                  = ( /\ n \notin Elems(config.blockedToolkits)
                      /\ (config.allowedToolkits = <<>>
                            \/ n \in Elems(config.allowedToolkits)) )

C6_Witness ==
    /\ polOut.toolkit.done
    /\ normalizeToolkitSlug(polToolkit) \in Elems(config.allowedToolkits)
    /\ normalizeToolkitSlug(polToolkit) \in Elems(config.blockedToolkits)
    /\ ~polOut.toolkit.allowed

\* C7 as stated: for every slug the policy denies exactly when one of the
\* three rules (allow-list, block-list, read-only heuristic) applies, and
\* allows otherwise.
C7_AsStated ==
    polOut.slug.done =>
        (polOut.slug.error = NoError)
          = (RuleOfExpected(config, normalizeToolSlug(polSlug)) = "allow")

\* C7 amended: a slug whose normalized form is empty is denied first
\* ("tool_slug is required"); for every other slug the policy decides in this
\* order: deny if a tool allow-list is configured and the slug is not in it;
\* otherwise deny if the slug is block-listed (also when allow-listed);
\* otherwise deny if read-only mode is on, the slug is not allow-listed and one
\* of its '_'-separated tokens is a destructive verb; otherwise allow.
C7_ToolSlugPolicyOrder ==
    polOut.slug.done =>
        LET n == normalizeToolSlug(polSlug)
        IN IF n = <<>> THEN polOut.slug.error = ErrToolSlugRequired
           ELSE RuleOfError(polOut.slug.error) = RuleOfExpected(config, n)

C7_Witness ==
    /\ polOut.slug.done
    /\ config.readOnlyMode
    /\ normalizeToolSlug(polSlug) \in Elems(config.allowedToolSlugs)
    /\ normalizeToolSlug(polSlug) \in Elems(config.blockedToolSlugs)
    /\ isLikelyDestructiveToolSlug(polSlug)
    /\ RuleOfError(polOut.slug.error) = "block-list"

-----------------------------------------------------------------------------
(* Claims on executeTool and the account resolver (Spec).                  *)

HasCall(l, call) == \E i \in DOMAIN l.calls : l.calls[i] = call

\* The broker's ACTIVE accounts of a toolkit and a scope.
ActiveFor(toolkit, userId) ==
    BrokerSelect(accounts, [toolkits |-> <<toolkit>>, userIds |-> <<userId>>,
                            statuses |-> <<StatusActive>>])

Ids(accts) == [i \in DOMAIN accts |-> accts[i].id]

\* C1: an operation that touches remote state and is called without a scope
\* fails before any remote call is made; the scope is never replaced by a
\* default.
C1_NoScopeFailsFast ==
    \A p \in Procs :
        (proc[p].op # "none" /\ proc[p].userId = <<>>) =>
            /\ proc[p].calls = <<>>
            /\ proc[p].pc = "done"
            /\ proc[p].result.kind = "returned"
            /\ ~proc[p].result.success

\* C2: executeTool never throws: whatever its remote calls answer, it
\* returns a result.
C2_ExecuteToolNeverThrows ==
    \A p \in Procs :
        proc[p].op = "executeTool" => proc[p].result.kind # "thrown"

\* C3: when the broker holds two or more ACTIVE accounts for the toolkit and
\* the scope and no explicit account id is given, executeTool issues no
\* session-creation, meta-execute or direct-execute call and pins no account;
\* what it returns has success=false, and once the accounts are listed it has
\* returned the resolver's error.
C3_NeverPicksAmongSeveral ==
    \A p \in Procs :
        LET l == proc[p]
        IN (/\ l.op = "executeTool"
            /\ l.explicitId = <<>>
            /\ Len(ActiveFor(l.toolkit, l.uid)) >= 2) =>
              /\ ~HasCall(l, "toolRouter.create")
              /\ ~HasCall(l, "executeMetaTool")
              /\ ~HasCall(l, "tools.execute")
              /\ l.pin = <<>> /\ l.session = 0
              /\ l.result.kind = "returned" => ~l.result.success
              /\ l.resolution.done =>
                    /\ l.pc = "done"
                    /\ l.resolution.error # <<>>
                    /\ l.result = Returned(FALSE, l.resolution.error, <<>>)

C3_Witness ==
    \E p \in Procs :
        LET l == proc[p]
        IN /\ l.op = "executeTool" /\ l.explicitId = <<>>
           /\ Len(ActiveFor(l.toolkit, l.uid)) = MaxActive
           /\ l.resolution.done
           /\ l.result.kind = "returned" /\ ~l.result.success
           /\ StrIncludes(l.result.error, <<"M","u","l","t","i","p","l","e"," ","A","C","T","I","V","E"," ","'","g","m","'"," ","a","c","c","o","u","n","t","s">>)

\* C4: resolving without an explicit id, with n the number of ACTIVE accounts
\* listed for the toolkit and the scope (the listing returns the broker's, in
\* order): n = 0 gives no pinned account and no error, n = 1 gives that
\* account's id, n >= 2 gives an error that contains every candidate id.
C4_ResolveByCount ==
    \A p \in Procs :
        LET l == proc[p]
            n == Len(l.items)
        IN (l.op = "executeTool" /\ l.explicitId = <<>> /\ l.resolution.done) =>
              /\ Ids(l.items) = Ids(ActiveFor(l.toolkit, l.uid))
              /\ n = 0 => l.resolution.error = <<>> /\ l.resolution.connectedAccountId = <<>>
              /\ n = 1 => /\ l.resolution.error = <<>>
                          /\ l.resolution.connectedAccountId = l.items[1].id
              /\ n >= 2 => /\ l.resolution.connectedAccountId = <<>>
                           /\ l.resolution.error # <<>>
                           /\ \A i \in 1..n : StrIncludes(l.resolution.error, l.items[i].id)

C4_Witness ==
    \E p \in Procs :
        LET l == proc[p]
        IN /\ l.op = "executeTool" /\ l.explicitId = <<>> /\ l.resolution.done
           /\ Len(l.items) = MaxActive
           /\ \A i \in 1..MaxActive : StrIncludes(l.resolution.error, l.items[i].id)

\* What the policy of the claims decides for a raw slug, stated on the
\* configuration's lists.
SlugDenied(rawSlug) ==
    LET n == normalizeToolSlug(rawSlug)
    IN n = <<>> \/ RuleOfExpected(config, n) # "allow"

ToolkitDenied(rawSlug) ==
    LET tk == normalizeToolkitSlug(Split(normalizeToolSlug(rawSlug), "_")[1])
    IN \/ tk = <<>>
       \/ tk \in Elems(config.blockedToolkits)
       \/ config.allowedToolkits # <<>> /\ tk \notin Elems(config.allowedToolkits)

\* C5: if the policy rejects the tool slug or the toolkit derived from it,
\* executeTool returns success=false with the policy error (for a toolkit,
\* one mentioning "not allowed") and has made no remote call of any kind.
C5_PolicyRejectsBeforeRemote ==
    \A p \in Procs :
        LET l == proc[p]
        IN (l.op = "executeTool" /\ (SlugDenied(l.rawSlug) \/ ToolkitDenied(l.rawSlug))) =>
              /\ l.pc = "done"
              /\ l.calls = <<>>
              /\ l.result.kind = "returned" /\ ~l.result.success
              /\ IF SlugDenied(l.rawSlug)
                 THEN \/ l.result.error = ErrToolSlugRequired
                      \/ RuleOfError(l.result.error)
                            = RuleOfExpected(config, normalizeToolSlug(l.rawSlug))
                 ELSE StrIncludes(l.result.error, <<"n","o","t"," ","a","l","l","o","w","e","d">>)

C5_Witness ==
    \E p \in Procs :
        LET l == proc[p]
        IN /\ l.op = "executeTool"
           /\ ~SlugDenied(l.rawSlug)
           /\ l.toolkit \in Elems(config.blockedToolkits)
           /\ l.pc = "done" /\ l.calls = <<>> /\ ~l.result.success
           /\ StrIncludes(l.result.error, <<"n","o","t"," ","a","l","l","o","w","e","d">>)

ReadOnlyDestructive(l) ==
    /\ l.op = "executeTool"
    /\ config.readOnlyMode
    /\ \E t \in Elems(Split(normalizeToolSlug(l.rawSlug), "_")) : t \in DESTRUCTIVE_TOOL_VERBS

\* C8: in read-only mode executeTool rejects a slug with a destructive verb
\* token with an error mentioning "readOnlyMode" and no remote call; when that
\* slug is on the tool allow-list (and nothing else blocks it) the same call
\* goes on to its remote calls and is never rejected for read-only mode.
C8_ReadOnlyAndOverride ==
    \A p \in Procs :
        LET l == proc[p]
            n == normalizeToolSlug(l.rawSlug)
        IN ReadOnlyDestructive(l) =>
              /\ (config.allowedToolSlugs = <<>> /\ n \notin Elems(config.blockedToolSlugs)) =>
                    /\ l.pc = "done" /\ l.calls = <<>>
                    /\ l.result.kind = "returned" /\ ~l.result.success
                    /\ StrIncludes(l.result.error, <<"r","e","a","d","O","n","l","y","M","o","d","e">>)
              /\ (/\ n \in Elems(config.allowedToolSlugs)
                  /\ n \notin Elems(config.blockedToolSlugs)
                  /\ ~ToolkitDenied(l.rawSlug)) =>
                    /\ l.calls # <<>>
                    /\ ~StrIncludes(l.result.error, <<"r","e","a","d","O","n","l","y","M","o","d","e">>)

\* The override of C8 at work: the allow-listed destructive slug executed.
C8_Witness ==
    \E p \in Procs :
        LET l == proc[p]
        IN /\ ReadOnlyDestructive(l)
           /\ normalizeToolSlug(l.rawSlug) \in Elems(config.allowedToolSlugs)
           /\ HasCall(l, "executeMetaTool")
           /\ l.pc = "done" /\ l.result.success

-----------------------------------------------------------------------------
(* Claims on the session cache (Spec, SpecSessions).                       *)

\* Request p is past getSession, and a session had been created for its key
\* (and not evicted since) when its getSession began.
SecondGetSession(l) == l.session # 0 /\ l.sawCreated >= 1

\* C9 as stated: two sequential getSession calls with the same key, the first
\* of which succeeded, no disconnect in between, issue exactly one create call
\* between them.
C9_AsStated ==
    \A p \in Procs :
        SecondGetSession(proc[p]) =>
            HistOf(hist, proc[p].key).creatorCalls + proc[p].createCalls = 1

\* C9 amended: the second call issues no create call and returns the cached
\* session, which exactly one create call made successfully; the first call
\* issued one create call, or two when its first attempt was rejected for
\* missing auth configs and retried without the toolkit filter.
C9_SecondCallHitsCache ==
    \A p \in Procs :
        LET l == proc[p]
        IN SecondGetSession(l) =>
              /\ l.createCalls = 0
              /\ ~HasCall(l, "toolRouter.create")
              /\ SessionCacheHas(sessionCache, l.key)
              /\ l.session = sessionCache[l.key]
              /\ HistOf(hist, l.key).created = 1
              /\ HistOf(hist, l.key).creatorCalls \in {1, 2}

C9_Witness ==
    \E p \in Procs :
        LET l == proc[p]
        IN /\ SecondGetSession(l)
           /\ l.pin # <<>>
           /\ HistOf(hist, l.key).creatorCalls = 2
           /\ l.pc = "done" /\ l.result.success

\* C10 as stated: over any interleaving, at most one successful create call
\* per cache key between evictions of the key.
C10_AsStated ==
    \A k \in DOMAIN hist : hist[k].created <= 1

\* C10 amended: at most one successful create call per cache key between
\* evictions, unless requests for the key were creating its session at the
\* same time; then each of them may create one.
C10_OneCreateUnlessRaced ==
    \A k \in DOMAIN hist :
        hist[k].created >= 2 => hist[k].raced /\ hist[k].created <= Cardinality(Procs)

C10_Witness ==
    \E k \in DOMAIN hist :
        /\ hist[k].created = 2 /\ hist[k].raced
        /\ \E p \in Procs : proc[p].key = k /\ proc[p].pc = "done" /\ proc[p].result.success


-----------------------------------------------------------------------------
(* Session creation: the retry without toolkit filters.                    *)

CallCount(l, call) == Cardinality({ i \in DOMAIN l.calls : l.calls[i] = call })

\* The error text has the missing-auth-config shape: both phrases, in any
\* letter case.
MissingAuthConfigShape(err) ==
    /\ StrIncludes(ToLowerCase(err), <<"r","e","q","u","i","r","e"," ","a","u","t","h"," ","c","o","n","f","i","g","s"," ","b","u","t"," ","n","o","n","e"," ","e","x","i","s","t">>)
    /\ StrIncludes(ToLowerCase(err), <<"p","l","e","a","s","e"," ","s","p","e","c","i","f","y"," ","t","h","e","m"," ","i","n"," ","a","u","t","h","_","c","o","n","f","i","g","s">>)

\* The toolkit enable list of a configuration that was sent.
EnableListOf(sessionConfig) ==
    IF sessionConfig = None THEN <<>> ELSE sessionConfig[1].toolkits.enable

\* The account pins, tags and tool-disable map of a configuration that was
\* sent, each empty when the configuration does not hold it.
KeptDirectives(sessionConfig) ==
    IF sessionConfig = None
    THEN [connectedAccounts |-> <<>>, tags |-> <<>>, tools |-> <<>>]
    ELSE [connectedAccounts |-> sessionConfig[1].connectedAccounts,
          tags |-> sessionConfig[1].tags, tools |-> sessionConfig[1].tools]

HasToolkitsDirective(sessionConfig) ==
    /\ sessionConfig # None
    /\ \/ sessionConfig[1].toolkits.enable # <<>>
       \/ sessionConfig[1].toolkits.disable # <<>>

\* The first create call of the request failed in the retryable way.
FirstCreateRetryable(l) ==
    /\ l.createErrors # <<>>
    /\ MissingAuthConfigShape(l.createErrors[1])
    /\ EnableListOf(l.sent[1].config) # <<>>

\* C11: when the first create call fails with an error holding both
\* "require auth configs but none exist" and "please specify them in
\* auth_configs" and the configuration sent had a non-empty toolkit enable
\* list, getSession issues exactly one more create call, for the same scope,
\* whose configuration is the original without the toolkits directive
\* (account pins, tags and tool-disable map kept), and a session that call
\* returns is cached under the request's key.
C11_RetryDropsOnlyToolkits ==
    \A p \in Procs :
        LET l == proc[p]
        IN FirstCreateRetryable(l) =>
             /\ l.createCalls = 2
             /\ CallCount(l, "toolRouter.create") = 2
             /\ Len(l.sent) = 2
             /\ l.sent[2].userId = l.sent[1].userId
             /\ ~HasToolkitsDirective(l.sent[2].config)
             /\ KeptDirectives(l.sent[2].config) = KeptDirectives(l.sent[1].config)
             /\ (l.sent[2].config = None) =
                    (KeptDirectives(l.sent[1].config)
                        = [connectedAccounts |-> <<>>, tags |-> <<>>, tools |-> <<>>])
             /\ l.pc # "awaitCreate"
             /\ (l.pc # "awaitCreateRetry" /\ Len(l.createErrors) = 1)
                    => /\ l.session # 0
                       /\ l.key \in DOMAIN sessionCache
                       /\ sessionCache[l.key] = l.session

\* A retried creation that kept a pin, a tag and a tool-disable map, and
\* whose session is cached.
C11_Witness ==
    \E p \in Procs :
        LET l == proc[p]
        IN /\ FirstCreateRetryable(l)
           /\ Len(l.sent) = 2
           /\ l.sent[2].config # None
           /\ l.sent[2].config[1].connectedAccounts # <<>>
           /\ l.sent[2].config[1].tags # <<>>
           /\ l.sent[2].config[1].tools # <<>>
           /\ l.session # 0
           /\ l.key \in DOMAIN sessionCache
           /\ sessionCache[l.key] = l.session

\* getSession failed: every create call it issued was rejected.
GetSessionFailed(l) ==
    /\ l.createErrors # <<>>
    /\ Len(l.createErrors) = Len(l.sent)
    /\ l.pc \notin {"awaitCreate", "awaitCreateRetry"}

\* C12: when session creation fails with an error that has not the
\* missing-auth-config shape, or no toolkit enable list was sent, getSession
\* issues no second create call and the error reaches its caller; and whenever
\* getSession fails, after one create call or after the retry, the cache holds
\* no entry for the request's key.
C12_OtherErrorsPropagate ==
    \A p \in Procs :
        LET l == proc[p]
        IN /\ ( /\ l.createErrors # <<>>
                /\ \/ ~MissingAuthConfigShape(l.createErrors[1])
                   \/ EnableListOf(l.sent[1].config) = <<>> )
              => /\ l.createCalls = 1
                 /\ CallCount(l, "toolRouter.create") = 1
                 /\ Len(l.sent) = 1
                 /\ l.pc = "done"
                 /\ ~l.result.success
                 /\ l.result.error = l.createErrors[1]
           /\ GetSessionFailed(l)
              => /\ l.pc = "done"
                 /\ l.session = 0
                 /\ ~l.result.success
                 /\ l.result.error = l.createErrors[Len(l.createErrors)]
                 /\ l.key \notin DOMAIN sessionCache

\* Creation with an enable list failed with one of the two phrases only: one
\* create call, the error propagated, nothing cached.
C12_Witness ==
    \E p \in Procs :
        LET l == proc[p]
        IN /\ l.createErrors = <<ErrAuthConfigsPartial>>
           /\ EnableListOf(l.sent[1].config) # <<>>
           /\ l.pc = "done"
           /\ l.result.error = ErrAuthConfigsPartial
           /\ l.key \notin DOMAIN sessionCache

-----------------------------------------------------------------------------
(* Disconnecting a toolkit (SpecScope).                                    *)

\* The cache key belongs to the scope, with or without account pins.
KeyOfScope(key, userId) ==
    \/ key = <<"u","i","d",":">> \o userId
    \/ StartsWith(key, <<"u","i","d",":">> \o userId \o <<":",":","c","a",":">>)

\* C13: after disconnectToolkit(toolkit, scope) returned success the single
\* ACTIVE account was deleted at the broker and the cache holds no entry of
\* that scope, pinned or not; a getSession that finds no session created for
\* its key since the key's last eviction issues a create call.
C13_DisconnectEvictsScope ==
    \A p \in Procs :
        LET l == proc[p]
        IN /\ (l.op = "disconnectToolkit" /\ l.pc = "done" /\ l.result.success)
              => /\ HasCall(l, "connectedAccounts.delete")
                 /\ l.pin # <<>>
                 /\ \A i \in DOMAIN accounts : accounts[i].id # l.pin
                 /\ ActiveFor(l.toolkit, l.uid) = <<>>
                 /\ \A key \in DOMAIN sessionCache : ~KeyOfScope(key, l.uid)
           /\ (l.key # <<>> /\ l.sawCreated = 0)
              => /\ l.createCalls >= 1
                 /\ HasCall(l, "toolRouter.create")
                 /\ l.session # 0 => l.session = nextSession

\* A session of the scope was created, the caller disconnected and asked for
\* a session again: the only entry cached is the second session, created
\* after the disconnect.
C13_Witness ==
    /\ nOps = 3
    /\ nextSession = 2
    /\ ActiveFor(<<"g","m">>, ScopeU1) = <<>>
    /\ DOMAIN sessionCache = { <<"u","i","d",":">> \o ScopeU1 }
    /\ proc[1].key = <<"u","i","d",":">> \o ScopeU1
    /\ proc[1].sawCreated = 0
    /\ proc[1].createCalls >= 1
    /\ proc[1].session = 2
    /\ sessionCache[proc[1].key] = 2

-----------------------------------------------------------------------------
(* executeTool: the session is pinned to the resolved account.             *)

\* The account pins executeTool hands to getSession for a resolved id.
PinsFor(toolkit, connectedAccountId) ==
    IF connectedAccountId # <<>> THEN << <<toolkit, connectedAccountId>> >> ELSE <<>>

\* C14: executeTool acquires its session for the request's scope with the
\* account pins {toolkit: id} exactly when the resolver returned an id, the
\* explicit one or the single ACTIVE account, and with no pins when the
\* resolver returned none; the meta call is issued with the id of the session
\* acquired.
C14_SessionPinnedToResolution ==
    \A p \in Procs :
        LET l == proc[p]
            id == l.resolution.connectedAccountId
        IN (l.op = "executeTool" /\ l.key # <<>>) =>
             /\ l.resolution.done
             /\ l.resolution.error = <<>>
             /\ id = IF l.explicitId # <<>> THEN l.explicitId
                     ELSE IF Len(ActiveFor(l.toolkit, l.uid)) = 1
                          THEN ActiveFor(l.toolkit, l.uid)[1].id
                     ELSE <<>>
             /\ l.pins = PinsFor(l.toolkit, id)
             /\ l.key = IF id = <<>> THEN <<"u","i","d",":">> \o l.uid
                        ELSE <<"u","i","d",":">> \o l.uid \o <<":",":","c","a",":">> \o l.toolkit \o <<"=">> \o id
             /\ l.sent # <<>> =>
                    /\ l.sent[1].userId = l.uid
                    /\ KeptDirectives(l.sent[1].config).connectedAccounts = l.pins
             /\ (l.metaCall # None) = HasCall(l, "executeMetaTool")
             /\ l.metaCall # None =>
                    /\ l.session # 0
                    /\ l.metaCall[1].sessionId = l.session
                    /\ l.key \in DOMAIN sessionCache
                    /\ sessionCache[l.key] = l.session
                    /\ l.metaCall[1].tool_slug = l.toolSlug
                    /\ l.metaCall[1].arguments = l.args

\* The meta call went out on a session pinned to the single ACTIVE account.
C14_Witness ==
    \E p \in Procs :
        LET l == proc[p]
        IN /\ l.op = "executeTool"
           /\ l.explicitId = <<>>
           /\ l.pins = << <<<<"g","m">>, <<"c","a","1">>>> >>
           /\ l.metaCall # None
           /\ l.metaCall[1].sessionId = l.session
           /\ l.session # 0

-----------------------------------------------------------------------------
(* The resolver with an explicit account id (SpecOwner).                   *)

\* The broker's accounts with this id.
AccountsWithId(id) == { i \in DOMAIN accounts : accounts[i].id = id }

\* The request issued a session-creation or an execute call.
CreatedOrExecuted(l) ==
    \/ HasCall(l, "toolRouter.create")
    \/ HasCall(l, "executeMetaTool")
    \/ HasCall(l, "tools.execute")

\* C15: with an explicit account id the resolver returns the pinned id only
\* if the fetched account belongs to the requested toolkit and its status is
\* ACTIVE; in every other case it returns an error and executeTool issues no
\* session-creation or execute call.
C15_ExplicitAccountVerified ==
    \A p \in Procs :
        LET l == proc[p]
            verified ==
                \E i \in AccountsWithId(l.explicitId) :
                    /\ normalizeToolkitSlug(accounts[i].toolkit) = l.toolkit
                    /\ ToUpperCase(accounts[i].status) = StatusActive
        IN (l.op = "executeTool" /\ l.explicitId # <<>> /\ l.resolution.done) =>
             /\ l.resolution.connectedAccountId # <<>> =>
                    /\ l.resolution.connectedAccountId = l.explicitId
                    /\ verified
             /\ ~verified =>
                    /\ l.resolution.error # <<>>
                    /\ l.pc = "done"
                    /\ l.result = Returned(FALSE, l.resolution.error, <<>>)
                    /\ ~CreatedOrExecuted(l)

\* C16: when an explicit account id and an explicit scope are both given and
\* the owner the broker reports for the fetched account differs from that
\* scope, the resolver rejects: an account owned by one scope is never bound
\* to an execution for another scope.
C16_OtherOwnerRejected ==
    \A p \in Procs :
        LET l == proc[p]
            otherOwner ==
                \E i \in AccountsWithId(l.explicitId) :
                    accounts[i].userId # <<>> /\ accounts[i].userId # l.userId
        IN ( /\ l.op = "executeTool"
             /\ l.explicitId # <<>>
             /\ l.userId # <<>>
             /\ l.resolution.done
             /\ otherOwner )
           => /\ l.resolution.error # <<>>
              /\ l.resolution.connectedAccountId = <<>>
              /\ l.pins = <<>>
              /\ ~CreatedOrExecuted(l)

\* C17: when the broker does not report the owner of an explicitly given
\* account, the resolver accepts the id only if the account appears in the
\* ACTIVE-account listing of the requested (toolkit, scope); otherwise it
\* rejects.
C17_UnreportedOwnerFailsClosed ==
    \A p \in Procs :
        LET l == proc[p]
            ownerUnreported ==
                \E i \in AccountsWithId(l.explicitId) : accounts[i].userId = <<>>
            listed ==
                \E i \in DOMAIN ActiveFor(l.toolkit, l.uid) :
                    ActiveFor(l.toolkit, l.uid)[i].id = l.explicitId
        IN ( /\ l.op = "executeTool"
             /\ l.explicitId # <<>>
             /\ l.resolution.done
             /\ ownerUnreported
             /\ ~listed )
           => /\ l.resolution.error # <<>>
              /\ l.resolution.connectedAccountId = <<>>
              /\ ~CreatedOrExecuted(l)

-----------------------------------------------------------------------------
(* executeTool: the recovery after a failed meta call.                     *)

\* The lower-level execute calls of this kind the request issued.
DirectCallsOfKind(l, kind) ==
    { i \in DOMAIN l.directCalls : l.directCalls[i].kind = kind }

\* The meta call answered, and both the call and its first per-call result
\* are successful.
MetaSucceeded(l) ==
    /\ l.metaReply # None
    /\ ~l.metaReply[1].throws
    /\ l.metaReply[1].successful
    /\ l.metaReply[1].data # None
    /\ l.metaReply[1].data[1].results # <<>>
    /\ l.metaReply[1].data[1].results[1].response.successful

\* C18: in one executeTool call the remote execute calls are bounded: at most
\* one meta call, at most one direct-fallback call and at most one
\* hinted-retry call, so at most two lower-level execute calls; recovery is
\* entered at most once; and when the meta call and its per-call result are
\* successful no lower-level execute call is issued.
C18_ExecuteCallsBounded ==
    \A p \in Procs :
        LET l == proc[p]
        IN l.op = "executeTool" =>
             /\ CallCount(l, "executeMetaTool") <= 1
             /\ Cardinality(DirectCallsOfKind(l, "fallback")) <= 1
             /\ Cardinality(DirectCallsOfKind(l, "hinted")) <= 1
             /\ CallCount(l, "tools.execute") = Len(l.directCalls)
             /\ Len(l.directCalls) <= 2
             /\ l.recoveries <= 1
             /\ l.directCalls # <<>> => l.recoveries = 1
             /\ MetaSucceeded(l) =>
                    /\ l.directCalls = <<>>
                    /\ l.recoveries = 0
                    /\ CallCount(l, "tools.execute") = 0
                    /\ l.pc = "done"
                    /\ l.result.success

\* One meta call, one direct fallback and one hinted retry were issued, and
\* the operation ended.
C18_Witness ==
    \E p \in Procs :
        LET l == proc[p]
        IN /\ l.op = "executeTool"
           /\ l.pc = "done"
           /\ CallCount(l, "executeMetaTool") = 1
           /\ Len(l.directCalls) = 2
           /\ l.directCalls[1].kind = "fallback"
           /\ l.directCalls[2].kind = "hinted"
           /\ l.recoveries = 1

\* The meta call answered a failure: the call or its first per-call result is
\* unsuccessful. (A meta call that throws is an exception, not an answer.)
MetaFailed(l) ==
    /\ l.metaReply # None
    /\ ~l.metaReply[1].throws
    /\ \/ ~l.metaReply[1].successful
       \/ /\ l.metaReply[1].data # None
          /\ l.metaReply[1].data[1].results # <<>>
          /\ ~l.metaReply[1].data[1].results[1].response.successful

\* The meta error of a failed meta call, and the error of its first per-call
\* result.
MetaErrorOf(reply) ==
    IF ~reply.successful THEN reply.error
    ELSE reply.data[1].results[1].response.error

NestedErrorOf(reply) ==
    IF reply.data = None \/ reply.data[1].results = <<>> THEN <<>>
    ELSE reply.data[1].results[1].error

MentionsDefaultEntity(text) ==
    StrIncludes(ToLowerCase(text), <<"n","o"," ","c","o","n","n","e","c","t","e","d"," ","a","c","c","o","u","n","t"," ","f","o","u","n","d"," ","f","o","r"," ","e","n","t","i","t","y"," ","i","d"," ","d","e","f","a","u","l","t">>)

\* C19: the direct-fallback call is issued if and only if the meta call
\* answered a failure, the scope is not "default" and the meta error or the
\* first nested per-call error contains, in any letter case, "no connected
\* account found for entity id default"; the call is the lower-level execute
\* with the same tool slug and arguments, the request's scope as user and the
\* resolved account as account pin; when it succeeds its result is what
\* executeTool returns.
C19_DirectFallbackIff ==
    \A p \in Procs :
        LET l == proc[p]
            fallbacks == DirectCallsOfKind(l, "fallback")
        IN l.op = "executeTool" =>
             /\ l.metaReply = None => fallbacks = {}
             /\ l.metaReply # None =>
                    (fallbacks # {}) =
                        ( /\ MetaFailed(l)
                          /\ l.uid # <<"d","e","f","a","u","l","t">>
                          /\ \/ MentionsDefaultEntity(MetaErrorOf(l.metaReply[1]))
                             \/ MentionsDefaultEntity(NestedErrorOf(l.metaReply[1])) )
             /\ \A i \in fallbacks :
                    /\ i = 1
                    /\ l.directCalls[i].toolSlug = l.toolSlug
                    /\ l.directCalls[i].arguments = l.args
                    /\ l.directCalls[i].userId = l.uid
                    /\ l.directCalls[i].connectedAccountId = l.resolution.connectedAccountId
             /\ (l.fallback.present /\ l.fallback.success) =>
                    /\ l.pc = "done"
                    /\ l.result = Returned(TRUE, l.fallback.error, l.fallback.data)
                    /\ Len(l.directCalls) = 1

\* The nested per-call error alone named the default entity, the fallback
\* went out with the scope and the resolved account, and its success is the
\* result.
C19_Witness ==
    \E p \in Procs :
        LET l == proc[p]
        IN /\ l.op = "executeTool"
           /\ MetaFailed(l)
           /\ ~MentionsDefaultEntity(MetaErrorOf(l.metaReply[1]))
           /\ MentionsDefaultEntity(NestedErrorOf(l.metaReply[1]))
           /\ Len(l.directCalls) = 1
           /\ l.directCalls[1].kind = "fallback"
           /\ l.directCalls[1].userId = ScopeU1
           /\ l.directCalls[1].connectedAccountId = <<"c","a","1">>
           /\ l.fallback.success
           /\ l.result = Returned(TRUE, <<>>, <<"d","2">>)

-----------------------------------------------------------------------------
(* The hinted-identifier retry (SpecHint).                                 *)

\* The backquoted literals of a text, from left to right: each is one or more
\* characters other than a backquote between two backquotes.
RECURSIVE BackquotedLiterals(_)
BackquotedLiterals(text) ==
    LET n == Len(text)
        opens == { i \in 1..n : /\ text[i] = "backtick"
                                /\ i + 2 <= n
                                /\ text[i + 1] # "backtick"
                                /\ \E j \in (i + 2)..n : text[j] = "backtick" }
    IN IF opens = {} THEN <<>>
       ELSE LET i == CHOOSE a \in opens : \A b \in opens : a <= b
                j == CHOOSE a \in (i + 2)..n :
                        /\ text[a] = "backtick"
                        /\ \A b \in (i + 2)..n : text[b] = "backtick" => a <= b
            IN <<SubSeq(text, i + 1, j - 1)>> \o BackquotedLiterals(SubSeq(text, j + 1, n))

\* The combined error text the hinted retry reads.
HintCombinedText ==
    buildCombinedErrorText(hintIn.metaError, hintIn.metaData, hintIn.additionalError)

\* C20: a hinted-identifier retry call is issued only if the combined error
\* text contains, in any letter case, "only allowed to access" or "allowed to
\* access the", and holds a backquoted literal, the first of which, without
\* the white space around it, is not empty, at most 64 characters long and
\* free of white space; that literal is the value the retry injects. Without
\* either phrase, without a backquoted literal, or with a first literal that
\* is longer or holds white space inside, no retry is issued.
C20_HintedRetryOnlyIf ==
    (polOut.hint.done /\ polOut.hint.retryArgs # None) =>
        LET literals == BackquotedLiterals(HintCombinedText)
        IN /\ \/ StrIncludes(ToLowerCase(HintCombinedText), <<"o","n","l","y"," ","a","l","l","o","w","e","d"," ","t","o"," ","a","c","c","e","s","s">>)
              \/ StrIncludes(ToLowerCase(HintCombinedText), <<"a","l","l","o","w","e","d"," ","t","o"," ","a","c","c","e","s","s"," ","t","h","e">>)
           /\ literals # <<>>
           /\ Trim(literals[1]) # <<>>
           /\ Len(Trim(literals[1])) <= 64
           /\ \A k \in DOMAIN Trim(literals[1]) : ~IsSpace(Trim(literals[1])[k])
           /\ \E i \in DOMAIN polOut.hint.retryArgs[1] :
                 /\ polOut.hint.retryArgs[1][i].isString
                 /\ polOut.hint.retryArgs[1][i].value = Trim(literals[1])

\* C20 as stated: the retry is issued only with the phrase "only allowed to
\* access" and exactly one backquoted literal, which has no white space.
C20_AsStated ==
    (polOut.hint.done /\ polOut.hint.retryArgs # None) =>
        LET literals == BackquotedLiterals(HintCombinedText)
        IN /\ StrIncludes(ToLowerCase(HintCombinedText), <<"o","n","l","y"," ","a","l","l","o","w","e","d"," ","t","o"," ","a","c","c","e","s","s">>)
           /\ Len(literals) = 1
           /\ Len(literals[1]) <= 64
           /\ \A k \in DOMAIN literals[1] : ~IsSpace(literals[1][k])

\* A retry issued for a literal of exactly 64 characters.
C20_Witness ==
    /\ polOut.hint.done
    /\ polOut.hint.retryArgs # None
    /\ Len(BackquotedLiterals(HintCombinedText)) = 1
    /\ Len(BackquotedLiterals(HintCombinedText)[1]) = 64
    /\ \E i \in DOMAIN polOut.hint.retryArgs[1] :
          polOut.hint.retryArgs[1][i].value = BackquotedLiterals(HintCombinedText)[1]

-----------------------------------------------------------------------------
(* The arguments of the hinted retry (SpecHint).                           *)

\* The hint the retry injects, when the error text offers one.
HintOffered ==
    IF shouldRetryFromServerHint(HintCombinedText)
    THEN extractServerHintLiteral(HintCombinedText)
    ELSE <<>>

\* The fields the companion "fields are missing" fragment of the input names.
MissingFieldsNamed ==
    IF hintIn.metaData = None THEN {}
    ELSE IF hintIn.metaData[1].results[1].error
                \in {ErrMissingField, ErrMissingFieldNextLine} THEN {<<"u","u","i","d">>}
    ELSE {<<"u","u","i","d">>, <<"o","r","g">>}

StringFieldsOf(args) == { i \in DOMAIN args : args[i].isString }

\* The arguments with the value at position i replaced by the string hint.
SubstitutedAt(args, i, hint) ==
    [k \in DOMAIN args |->
        IF k = i THEN [key |-> args[i].key, isString |-> TRUE, value |-> hint]
        ELSE args[k]]

\* C21: given a hint, the retry arguments are: with exactly one string field
\* whose value is not already the hint, the arguments with that field set to
\* the hint and every other field unchanged; with no string field and exactly
\* one missing field named by the error text, the arguments plus that field
\* set to the hint; in every other shape (the one string field already holds
\* the hint, two or more string fields, no or several missing fields) no
\* retry is issued.
C21_RetryArgsByShape ==
    (polOut.hint.done /\ HintOffered # <<>>) =>
        LET args == hintIn.args
            strings == StringFieldsOf(args)
            retryArgs == polOut.hint.retryArgs
        IN IF Cardinality(strings) = 1
              /\ \A i \in strings : args[i].value # HintOffered
           THEN \E i \in strings : retryArgs = Some(SubstitutedAt(args, i, HintOffered))
           ELSE IF strings = {} /\ Cardinality(MissingFieldsNamed) = 1
           THEN \E f \in MissingFieldsNamed :
                   /\ \A i \in DOMAIN args : args[i].key # f
                   /\ retryArgs = Some(Append(args, [key |-> f, isString |-> TRUE,
                                                     value |-> HintOffered]))
           ELSE retryArgs = None

\* C21 as stated: exactly one string field always yields the arguments with
\* that field set to the hint.
C21_AsStated ==
    (polOut.hint.done /\ HintOffered # <<>>) =>
        LET args == hintIn.args
            strings == StringFieldsOf(args)
        IN Cardinality(strings) = 1 =>
              \E i \in strings :
                 polOut.hint.retryArgs = Some(SubstitutedAt(args, i, HintOffered))

\* A hint substituted into the one string field next to a field that is not
\* a string.
C21_Witness ==
    /\ polOut.hint.done
    /\ HintOffered = <<"@","m","e">>
    /\ Len(hintIn.args) = 2
    /\ Cardinality(StringFieldsOf(hintIn.args)) = 1
    /\ polOut.hint.retryArgs =
          Some(<< [key |-> <<"l","i","m","i","t">>, isString |-> FALSE, value |-> <<"5">>],
                  [key |-> <<"u","u","i","d">>, isString |-> TRUE, value |-> <<"@","m","e">>] >>)

-----------------------------------------------------------------------------
(* The result of a recovery (SpecCall).                                    *)

\* What a lower-level execute call contributes as a result: its answer, or a
\* failure carrying the message of the exception it raised.
ResultOfDirectReply(reply) ==
    IF reply.throws
    THEN [success |-> FALSE, error |-> reply.message, data |-> <<>>]
    ELSE [success |-> reply.successful, error |-> reply.error, data |-> reply.data]

\* The failure of the meta call as executeTool reports it.
OriginalFailure(reply) ==
    IF ~reply.successful
    THEN [success |-> FALSE,
          error |-> IF reply.error # <<>> THEN reply.error ELSE <<"E","x","e","c","u","t","i","o","n"," ","f","a","i","l","e","d">>,
          data |-> <<>>]
    ELSE [success |-> FALSE,
          error |-> reply.data[1].results[1].response.error,
          data |-> reply.data[1].results[1].response.data]

ResultFields(result) ==
    [success |-> result.success, error |-> result.error, data |-> result.data]

\* C22: when executeTool issued at least one recovery call, what it returns
\* is the result of the last recovery call issued, a success or a failure;
\* the failure of the meta call is returned only when no recovery call was
\* issued.
C22_LastRecoveryResultReturned ==
    \A p \in Procs :
        LET l == proc[p]
        IN (l.op = "executeTool" /\ l.pc = "done" /\ MetaFailed(l)) =>
             /\ l.result.kind = "returned"
             /\ Len(l.directReplies) = Len(l.directCalls)
             /\ l.directCalls # <<>> =>
                   ResultFields(l.result) =
                      ResultOfDirectReply(l.directReplies[Len(l.directReplies)])
             /\ l.directCalls = <<>> =>
                   ResultFields(l.result) = OriginalFailure(l.metaReply[1])

\* The direct fallback failed and no hinted retry followed: the fallback's
\* failure is returned, not the failure of the meta call.
C22_Witness ==
    \E p \in Procs :
        LET l == proc[p]
        IN /\ l.op = "executeTool"
           /\ l.pc = "done"
           /\ MetaFailed(l)
           /\ Len(l.directCalls) = 1
           /\ l.directCalls[1].kind = "fallback"
           /\ l.directReplies[1].throws
           /\ l.result.error = ErrBoom
           /\ OriginalFailure(l.metaReply[1]).error # ErrBoom

-----------------------------------------------------------------------------
(* disconnectToolkit (SpecDisconnect).                                     *)

\* The ACTIVE listing disconnectToolkit obtains for its toolkit and scope:
\* the broker's accounts, none of them for a toolkit the policy rejects.
DisconnectListing(l) ==
    IF isToolkitAllowed(config, l.toolkit) THEN ActiveFor(l.toolkit, l.uid) ELSE <<>>

\* disconnectToolkit got past its argument and mode checks.
DisconnectListed(l) ==
    l.op = "disconnectToolkit" /\ l.toolkit # <<>> /\ ~config.readOnlyMode

\* The listing itself raised the exception the result reports.
DisconnectListingThrew(l) == l.result.error = ErrBoom

C23_DeleteOnlySingle ==
    \A p \in Procs :
        LET l == proc[p]
            listing == DisconnectListing(l)
        IN DisconnectListed(l) =>
             /\ CallCount(l, "connectedAccounts.delete") <= 1
             /\ l.pc = "awaitDelete" =>
                   /\ HasCall(l, "connectedAccounts.delete")
                   /\ Len(listing) = 1
                   /\ l.pin = listing[1].id
             /\ (l.pc = "done" /\ ~HasCall(l, "connectedAccounts.delete")) =>
                   /\ l.result.kind = "returned"
                   /\ ~l.result.success
                   /\ ~DisconnectListingThrew(l) =>
                         /\ Len(listing) # 1
                         /\ Len(listing) = 0 =>
                               l.result.error =
                                  <<"N","o"," ","c","o","n","n","e","c","t","i","o","n"," ","f","o","u","n","d"," ","f","o","r"," ","t","o","o","l","k","i","t"," ","'">> \o l.toolkit \o <<"'">>
                         /\ Len(listing) >= 2 =>
                               /\ StrIncludes(l.result.error, <<"M","u","l","t","i","p","l","e"," ","A","C","T","I","V","E">>)
                               /\ \A i \in DOMAIN listing :
                                     StrIncludes(l.result.error, listing[i].id)

C23_CacheKeptWithoutDelete ==
    \A p \in Procs :
        (proc[p].op = "disconnectToolkit" /\ proc[p].pc # "awaitDelete") =>
            /\ sessionCache' = sessionCache
            /\ accounts' = accounts

\* C23: disconnectToolkit calls the remote delete only when the ACTIVE
\* listing for its toolkit and scope holds exactly one account, and then with
\* that account's id; with no account it returns a not-found failure, with
\* two or more a failure naming every candidate id, and in both cases delete
\* is never called and the session cache stays as it was.
C23_DisconnectOnlySingle ==
    /\ []C23_DeleteOnlySingle
    /\ [][C23_CacheKeptWithoutDelete]_vars

\* A session is cached, then a disconnect finds several ACTIVE accounts: it
\* fails naming them, nothing is deleted and the session is still cached.
C23_Witness ==
    LET l == proc[1]
    IN /\ l.op = "disconnectToolkit"
       /\ l.pc = "done"
       /\ Len(ActiveFor(l.toolkit, l.uid)) = MaxActive
       /\ ~HasCall(l, "connectedAccounts.delete")
       /\ StrIncludes(l.result.error, Join(Ids(ActiveFor(l.toolkit, l.uid)), <<","," ">>))
       /\ <<"u","i","d",":">> \o l.uid \in DOMAIN sessionCache

\* With read-only mode set a disconnectToolkit that was given a toolkit name
\* fails mentioning readOnlyMode and issued no remote call; given an empty
\* name it fails for the missing name, also without a remote call.
C24_ReadOnlyResult ==
    \A p \in Procs :
        LET l == proc[p]
        IN (config.readOnlyMode /\ l.op = "disconnectToolkit") =>
             /\ l.pc = "done"
             /\ l.calls = <<>>
             /\ l.result.kind = "returned"
             /\ ~l.result.success
             /\ IF l.toolkit # <<>>
                THEN StrIncludes(l.result.error, <<"r","e","a","d","O","n","l","y","M","o","d","e">>)
                ELSE l.result.error = <<"T","o","o","l","k","i","t"," ","i","s"," ","r","e","q","u","i","r","e","d">>

C24_ReadOnlyKeepsCache ==
    \A p \in Procs :
        (config.readOnlyMode /\ proc'[p].op = "disconnectToolkit") =>
            /\ sessionCache' = sessionCache
            /\ accounts' = accounts

\* C24: with read-only mode set, disconnectToolkit for a toolkit name that is
\* not empty returns success=false mentioning readOnlyMode, and for an empty
\* name success=false for the missing name; in both cases it issues no remote
\* call (no account listing, no delete) and leaves the session cache as it was.
C24_ReadOnlyDisconnectBlocked ==
    /\ []C24_ReadOnlyResult
    /\ [][C24_ReadOnlyKeepsCache]_vars

\* C24 as stated: with read-only mode set every disconnectToolkit fails
\* mentioning readOnlyMode.
C24_AsStated ==
    \A p \in Procs :
        LET l == proc[p]
        IN (config.readOnlyMode /\ l.op = "disconnectToolkit" /\ l.pc = "done") =>
             /\ ~l.result.success
             /\ StrIncludes(l.result.error, <<"r","e","a","d","O","n","l","y","M","o","d","e">>)

\* A session is cached and a disconnect in read-only mode was refused without
\* a remote call.
C24_Witness ==
    LET l == proc[1]
    IN /\ config.readOnlyMode
       /\ l.op = "disconnectToolkit"
       /\ l.pc = "done"
       /\ l.toolkit = <<"g","m">>
       /\ l.uid = ScopeU1
       /\ l.calls = <<>>
       /\ l.result.error = <<"D","i","s","c","o","n","n","e","c","t"," ","i","s"," ","b","l","o","c","k","e","d"," ","b","y"," ","r","e","a","d","O","n","l","y","M","o","d","e",".">>
       /\ <<"u","i","d",":">> \o ScopeU1 \in DOMAIN sessionCache
       /\ Len(ActiveFor(<<"g","m">>, ScopeU1)) = 1

-----------------------------------------------------------------------------
(* Connection status (SpecStatus).                                         *)

\* getConnectionStatus returned its list of statuses.
StatusReturned(l) ==
    l.op = "getConnectionStatus" /\ l.pc = "done" /\ l.result.kind = "returned"

\* The router's toolkit listing reported an active connection of toolkit t.
RouterReportsActive(l, t) ==
    \E i \in DOMAIN l.routerItems :
        /\ ToLowerCase(Trim(l.routerItems[i].slug)) = t
        /\ l.routerItems[i].isActive

\* The listing of ACTIVE accounts the call obtained holds an account of
\* toolkit t.
ListingHolds(l, t) ==
    \E i \in DOMAIN l.accountItems :
        /\ ToLowerCase(Trim(l.accountItems[i].toolkit)) = t
        /\ l.accountItems[i].userId = l.uid
        /\ l.accountItems[i].status = StatusActive

\* The toolkits either signal mentioned.
ToolkitsMentioned(l) ==
    { ToLowerCase(Trim(l.routerItems[i].slug)) : i \in DOMAIN l.routerItems }
    \cup { ToLowerCase(Trim(l.accountItems[i].toolkit)) : i \in DOMAIN l.accountItems }

\* The request named no toolkit.
NoToolkitFilter(l) ==
    \A i \in DOMAIN l.toolkitsArg : Trim(l.toolkitsArg[i]) = <<>>

\* C25: getConnectionStatus reports an allowed toolkit connected iff the
\* router's toolkit listing reported connection.isActive for it or the ACTIVE
\* account listing of the scope holds an account of it; without a toolkit
\* filter the result holds exactly the allowed toolkits for which this is so,
\* each once and with connected = true; a disallowed toolkit is never in the
\* result. (The account listing answered all its pages.)
C25_ConnectedIffEitherSignal ==
    \A p \in Procs :
        LET l == proc[p]
            data == l.result.data
        IN (StatusReturned(l) /\ ~l.listingThrew) =>
             /\ \A i \in DOMAIN data :
                   /\ isToolkitAllowed(config, data[i].toolkit)
                   /\ data[i].userId = l.uid
                   /\ data[i].connected <=>
                         (RouterReportsActive(l, data[i].toolkit)
                          \/ ListingHolds(l, data[i].toolkit))
             /\ NoToolkitFilter(l) =>
                   /\ { data[i].toolkit : i \in DOMAIN data } =
                         { t \in ToolkitsMentioned(l) :
                              /\ isToolkitAllowed(config, t)
                              /\ RouterReportsActive(l, t) \/ ListingHolds(l, t) }
                   /\ \A i \in DOMAIN data : data[i].connected
                   /\ \A i, j \in DOMAIN data : data[i].toolkit = data[j].toolkit => i = j

\* Without a filter, a toolkit the router did not report active is connected
\* by its ACTIVE account, and the blocked toolkit the router reported active
\* is left out.
C25_Witness ==
    LET l == proc[1]
    IN /\ StatusReturned(l)
       /\ ~l.listingThrew
       /\ NoToolkitFilter(l)
       /\ ~isToolkitAllowed(config, <<"g","m">>)
       /\ RouterReportsActive(l, <<"g","m">>)
       /\ ~RouterReportsActive(l, <<"s","n">>)
       /\ ListingHolds(l, <<"s","n">>)
       /\ l.result.data = << ConnectionStatus(<<"s","n">>, TRUE, ScopeU1) >>

\* C26: if the listing of ACTIVE accounts throws, on its first or on a later
\* page, getConnectionStatus does not fail: it returns the statuses the
\* router's listing alone gives, the account listing contributing no toolkit.
C26_ListingThrowRouterOnly ==
    \A p \in Procs :
        LET l == proc[p]
            data == l.result.data
        IN (l.op = "getConnectionStatus" /\ l.pc = "done" /\ l.listingThrew) =>
             /\ l.result.kind = "returned"
             /\ \A i \in DOMAIN data :
                   data[i].connected <=> RouterReportsActive(l, data[i].toolkit)
             /\ NoToolkitFilter(l) =>
                   { data[i].toolkit : i \in DOMAIN data } =
                      { t \in ToolkitsMentioned(l) :
                           isToolkitAllowed(config, t) /\ RouterReportsActive(l, t) }

\* The place of the first name of the request that normalizes to toolkit t.
FirstRequestOf(l, t) ==
    CHOOSE k \in DOMAIN l.toolkitsArg :
        /\ ToLowerCase(Trim(l.toolkitsArg[k])) = t
        /\ \A m \in 1..(k - 1) : ToLowerCase(Trim(l.toolkitsArg[m])) # t

\* C27: with an explicit toolkit filter getConnectionStatus returns exactly
\* one entry for each distinct requested toolkit the policy allows, under its
\* normalized name and in the order of the request, and none for a toolkit
\* the policy disallows; when no requested toolkit is allowed the result is
\* empty.
C27_OneEntryPerAllowedRequest ==
    \A p \in Procs :
        LET l == proc[p]
            data == l.result.data
            names == { ToLowerCase(Trim(l.toolkitsArg[k])) : k \in DOMAIN l.toolkitsArg }
        IN (StatusReturned(l) /\ ~NoToolkitFilter(l)) =>
             /\ { data[i].toolkit : i \in DOMAIN data } =
                   { t \in names : t # <<>> /\ isToolkitAllowed(config, t) }
             /\ \A i, j \in DOMAIN data :
                   /\ data[i].toolkit = data[j].toolkit => i = j
                   /\ i < j => FirstRequestOf(l, data[i].toolkit)
                                  < FirstRequestOf(l, data[j].toolkit)
             /\ (\A t \in names : ~isToolkitAllowed(config, t)) => data = <<>>

\* A request naming one toolkit twice, in other letter case and with blanks,
\* and a second toolkit: two entries, in the order of the request.
C27_Witness ==
    LET l == proc[1]
    IN /\ StatusReturned(l)
       /\ l.toolkitsArg = <<<<" ","S","N"," ">>, <<"G","M">>, <<"s","n">>>>
       /\ Len(l.result.data) = 2
       /\ l.result.data[1].toolkit = <<"s","n">>
       /\ l.result.data[2].toolkit = <<"g","m">>

\* No requested toolkit is allowed: the result is empty and neither listing
\* was asked.
C27_WitnessNoneAllowed ==
    LET l == proc[1]
    IN /\ StatusReturned(l)
       /\ l.toolkitsArg = <<<<"S","n">>>>
       /\ ~isToolkitAllowed(config, <<"s","n">>)
       /\ l.result.data = <<>>
       /\ ~HasCall(l, "session.toolkits")

-----------------------------------------------------------------------------
(* Pagination loops (SpecStatus).                                          *)

\* The request is inside a pagination loop, awaiting a page.
AwaitsPage(l) ==
    l.pc \in {"awaitToolkits", "awaitActivePage", "awaitRawPage", "awaitFallbackPage"}

\* C28: every pagination loop (the router's toolkit listing of
\* getConnectionStatus and of listToolkits, the listing of ACTIVE accounts,
\* the raw and the normalized account listing) over cursors from a finite
\* set ends: its first request carries no cursor, each later one the cursor
\* just returned; it stops on an empty cursor or on the first cursor already
\* seen, never requests a cursor twice and issues at most one request more
\* than the number of distinct cursors returned.
C28_LoopsStopOnSeenCursor ==
    \A p \in Procs :
        LET l == proc[p]
            n == Len(l.requests)
            distinct == { l.returned[k] : k \in DOMAIN l.returned } \ {<<>>}
        IN l.requests # <<>> =>
             /\ l.requests[1] = <<>>
             /\ \A k \in 2..n : l.requests[k] # <<>> /\ l.requests[k] = l.returned[k - 1]
             /\ \A i, j \in 1..n : l.requests[i] = l.requests[j] => i = j
             /\ n <= Cardinality(distinct) + 1
             /\ n <= Cardinality(BrokerCursors \cup {RouterCursor})
             /\ Len(l.returned) \in {n - 1, n}
             /\ AwaitsPage(l) => Len(l.returned) = n - 1
             /\ Len(l.returned) = n =>
                   \/ l.returned[n] = <<>>
                   \/ \E k \in 1..(n - 1) : l.returned[k] = l.returned[n]

\* A raw account listing whose broker handed out a cursor a second time: the
\* loop stopped there, after three requests for two distinct cursors.
C28_Witness ==
    LET l == proc[1]
    IN /\ l.op = "listConnectedAccounts"
       /\ l.pc = "done"
       /\ l.requests = << <<>>, CursorOf(2), CursorOf(3) >>
       /\ l.returned = << CursorOf(2), CursorOf(3), CursorOf(2) >>
       /\ ~HasCall(l, "connectedAccounts.list")

-----------------------------------------------------------------------------
(* listConnectedAccounts (SpecStatus).                                     *)

\* What the broker holds for the filters of the listing.
ListingSelected(l) == BrokerSelect(accounts, l.filters)

\* The accounts of the pages the last listing loop of the call requested, as
\* its endpoint reports them: the owner only on the raw endpoint, and none of
\* a toolkit the policy disallows.
RECURSIVE ListedByLoop(_, _, _)
ListedByLoop(l, raw, k) ==
    IF k = 0 THEN <<>>
    ELSE LET items == BrokerPage(ListingSelected(l), l.requests[k]).items
             kept == SelectSeq(items, LAMBDA a : isToolkitAllowed(config, a.toolkit))
         IN ListedByLoop(l, raw, k - 1)
            \o [i \in DOMAIN kept |->
                  [id |-> kept[i].id, toolkit |-> kept[i].toolkit,
                   userId |-> IF raw THEN kept[i].userId ELSE <<>>,
                   status |-> kept[i].status]]

\* The positions of the calls of one endpoint among the remote calls.
CallsAt(l, call) == { i \in DOMAIN l.calls : l.calls[i] = call }

\* C29: listConnectedAccounts calls the raw listing endpoint first and, when
\* a page of it throws, returns what the normalized listing alone lists, no
\* account of the raw pages among it; on either path no returned account is
\* of a toolkit the policy disallows.
C29_RawFirstThenNormalizedAlone ==
    \A p \in Procs :
        LET l == proc[p]
            data == l.result.data
            fellBack == HasCall(l, "connectedAccounts.list")
        IN l.op = "listConnectedAccounts" =>
             /\ l.calls # <<>> => l.calls[1] = "connectedAccounts.list.raw"
             /\ \A i \in CallsAt(l, "connectedAccounts.list.raw"),
                   j \in CallsAt(l, "connectedAccounts.list") : i < j
             /\ (l.pc = "done" /\ l.result.kind = "returned") =>
                   /\ \A i \in DOMAIN data : isToolkitAllowed(config, data[i].toolkit)
                   /\ l.calls # <<>> =>
                         data = ListedByLoop(l, ~fellBack, Len(l.requests))
                   /\ fellBack =>
                         /\ Len(l.requests) = Cardinality(CallsAt(l, "connectedAccounts.list"))
                         /\ \A i \in DOMAIN data : data[i].userId = <<>>

\* The raw listing answered a page and threw on the next; the normalized
\* listing then answered all its pages: the result is the broker's accounts
\* of the allowed toolkits, once each and without an owner.
C29_Witness ==
    LET l == proc[1]
    IN /\ l.op = "listConnectedAccounts"
       /\ l.pc = "done"
       /\ l.result.kind = "returned"
       /\ l.filters.toolkits = <<>>
       /\ ~isToolkitAllowed(config, <<"g","m">>)
       /\ Cardinality(CallsAt(l, "connectedAccounts.list.raw")) = 2
       /\ HasCall(l, "connectedAccounts.list")
       /\ Ids(l.result.data) = <<<<"c","x","1">>>>
       /\ l.result.data[1].userId = <<>>
       /\ Len(accounts) > 2 * PageSize

-----------------------------------------------------------------------------
(* Exceptions of remote calls (SpecStatus).                                *)

\* C30: none of getConnectionStatus, searchTools, listConnectedAccounts,
\* findActiveUserIdsForToolkit, createConnection and disconnectToolkit lets
\* an exception of a remote call (session creation, meta call, listing,
\* authorize, delete) reach its caller; each returns a result value.
C30_NoExceptionEscapes ==
    \A p \in Procs :
        LET l == proc[p]
        IN (/\ l.op \in {"getConnectionStatus", "searchTools", "listConnectedAccounts",
                         "findActiveUserIdsForToolkit", "createConnection",
                         "disconnectToolkit"}
            /\ l.pc = "done")
           => l.result.kind = "returned"

-----------------------------------------------------------------------------
(* C31: createConnection.                                                  *)

CreateConnectionRejected(l) ==
    l.toolkit = <<>> \/ ~isToolkitAllowed(config, l.toolkit)

\* C31: createConnection never throws. For an empty toolkit name or a toolkit
\* that policy disallows it returns { error } having created no session and
\* called nothing; for an allowed toolkit it returns either the authUrl of
\* what authorize answered, authorize being its last call and made on the
\* cached session of the scope's key, or { error } carrying the message of
\* the exception that session creation or authorize threw.
C31_CreateConnectionContract ==
    \A p \in Procs :
        LET l == proc[p]
        IN l.op = "createConnection" =>
            /\ l.result.kind # "thrown"
            /\ CreateConnectionRejected(l) =>
                  /\ l.pc = "done"
                  /\ l.calls = <<>> /\ l.createCalls = 0 /\ l.session = 0
                  /\ l.result = Returned(FALSE,
                                   IF l.toolkit = <<>> THEN ErrToolkitRequired
                                   ELSE ErrToolkitNotAllowed(l.toolkit), <<>>)
            /\ (~CreateConnectionRejected(l) /\ l.pc = "done") =>
                  /\ l.result.kind = "returned"
                  /\ l.key = makeSessionCacheKey(l.uid, <<>>)
                  /\ IF l.result.success
                     THEN /\ l.authReply # None
                          /\ l.result.data = AuthUrlOf(l.authReply[1])
                          /\ l.calls # <<>>
                          /\ l.calls[Len(l.calls)] = "session.authorize"
                          /\ Cardinality({i \in DOMAIN l.calls :
                                            l.calls[i] = "session.authorize"}) = 1
                          /\ SessionCacheHas(sessionCache, l.key)
                          /\ sessionCache[l.key] = l.session
                     ELSE /\ l.authReply = None
                          /\ l.result.error \in CreateErrors \cup {ErrBoom}
                          /\ l.result.data = <<>>

\* An allowed toolkit's connection is created on a session made for it, the
\* URL being the url field because authorize gave no redirectUrl.
C31_Witness ==
    \E p \in Procs :
        /\ proc[p].op = "createConnection" /\ proc[p].pc = "done"
        /\ proc[p].result.success
        /\ proc[p].result.data = AuthUrlOther
        /\ proc[p].createCalls = 2

\* A disallowed toolkit is rejected.
C31_WitnessRejected ==
    \E p \in Procs :
        /\ proc[p].op = "createConnection" /\ proc[p].pc = "done"
        /\ proc[p].toolkit # <<>>
        /\ ~isToolkitAllowed(config, proc[p].toolkit)

\* An exception of authorize is returned as the error.
C31_WitnessCaught ==
    \E p \in Procs :
        /\ proc[p].op = "createConnection" /\ proc[p].pc = "done"
        /\ ~CreateConnectionRejected(proc[p])
        /\ proc[p].session # 0
        /\ proc[p].result = Returned(FALSE, ErrBoom, <<>>)

-----------------------------------------------------------------------------
(* C32: the agent-facing tools and a missing scope.                        *)

\* The user_id parameter is absent, or a string of white space only.
UserIdAbsentOrBlank(params) ==
    \/ params.user_id = Param(FALSE, <<>>)
    \/ params.user_id.isString /\ Trim(params.user_id.value) = <<>>

\* C32: once composio_execute_tool, or composio_manage_connections for the
\* action list, status or create, has run on parameters whose user_id is
\* absent or blank, the tool has returned a result carrying an error and has
\* called no operation of the client.
C32_ToolsFailFastWithoutUserId ==
    (/\ tool.pc \notin {"none", "called"}
     /\ UserIdAbsentOrBlank(tool.params)
     /\ \/ tool.params.name = ExecuteToolName
        \/ tool.params.action \in {ActionList, ActionStatus, ActionCreate})
    => /\ tool.pc = "done"
       /\ tool.calls = <<>>
       /\ tool.response # None
       /\ tool.response[1].error # None

\* The status action with a blank user_id is answered "user_id is required
\* for this action".
C32_Witness ==
    /\ tool.pc = "done"
    /\ tool.params.name = ConnectionsToolName
    /\ tool.params.action = ActionStatus
    /\ tool.params.user_id = Param(TRUE, <<" ", " ">>)
    /\ tool.calls = <<>>
    /\ tool.response = Some([error |-> Some(ErrUserIdRequiredForAction),
                             body |-> [action |-> ActionStatus]])

\* composio_execute_tool without user_id is answered "user_id is required".
C32_WitnessExecute ==
    /\ tool.pc = "done"
    /\ tool.params.name = ExecuteToolName
    /\ tool.params.user_id = Param(FALSE, <<>>)
    /\ tool.calls = <<>>
    /\ tool.response[1].error = Some(ErrUserIdRequired)

-----------------------------------------------------------------------------
(* C33: the data of a successful execution.                                *)

\* The payload of a per-call result: its data field, or its data_preview
\* field when the broker populated that one instead.
PayloadOf(toolResponse) ==
    IF toolResponse.data # <<>> THEN toolResponse.data
    ELSE toolResponse.data_preview

\* C33: when the meta call and its unwrapped per-call result are both
\* successful, executeTool returns success with data equal to the per-call
\* result's data, or to its data_preview when that is the field the broker
\* populated.
C33_DataOrPreviewReturned ==
    \A p \in Procs :
        LET l == proc[p]
        IN (l.op = "executeTool" /\ l.pc = "done" /\ MetaSucceeded(l)) =>
             /\ l.result.kind = "returned"
             /\ l.result.success
             /\ l.result.data = PayloadOf(l.metaReply[1].data[1].results[1].response)

\* The same for the results whose data field is populated.
C33_DataReturned ==
    \A p \in Procs :
        LET l == proc[p]
        IN (/\ l.op = "executeTool" /\ l.pc = "done" /\ MetaSucceeded(l)
            /\ l.metaReply[1].data[1].results[1].response.data # <<>>) =>
             /\ l.result = Returned(TRUE, <<>>,
                              l.metaReply[1].data[1].results[1].response.data)

-----------------------------------------------------------------------------
(* C34: toolkit slug normalization.                                        *)

IsTrimmed(s) == s = <<>> \/ (~IsSpace(s[1]) /\ ~IsSpace(s[Len(s)]))

IsLowerCase(s) == \A i \in DOMAIN s : \A j \in DOMAIN Uppers : s[i] # Uppers[j]

\* C34: normalizing a normalized toolkit slug gives the same slug, and a
\* normalized slug has no white space at either end and no upper-case
\* letter; "  GMail " normalizes to "gmail".
C34_NormalizeIdempotent ==
    polOut.toolkit.done =>
        /\ polOut.toolkit.again = polOut.toolkit.normalized
        /\ IsTrimmed(polOut.toolkit.normalized)
        /\ IsLowerCase(polOut.toolkit.normalized)
        /\ polToolkit = <<" "," ","G","M","a","i","l"," ">> => polOut.toolkit.normalized = <<"g","m","a","i","l">>

\* An input with white space at both ends and an upper-case letter has been
\* normalized to something else than itself.
C34_Witness ==
    /\ polOut.toolkit.done
    /\ polToolkit = <<" ", "G", "\t">>
    /\ polOut.toolkit.normalized = <<"g">>

-----------------------------------------------------------------------------
(* C35: disconnect against a getSession in flight (SpecSessions).          *)

\* C35: the cache holds no session whose create request was issued before a
\* disconnect deleted an account of its scope and evicted the scope's
\* sessions, also when the create call was in flight during the disconnect.
C35_NoSessionFromBeforeDisconnect ==
    \A key \in DOMAIN sessionCache : ~HistOf(hist, key).stale

-----------------------------------------------------------------------------
(* C36, C37: the cache key and the scopes (SpecKeys).                      *)

\* C36: the eviction that a successful disconnect for scope u performs
\* leaves every cached session that was created for another scope in the
\* cache, unchanged, also when u is a prefix of the other scope's user id.
C36_EvictionLeavesOtherScopes ==
    [][\A p \in Procs : \A key \in DOMAIN sessionCache :
          (proc[p].pc = "awaitDelete" /\ HistOf(hist, key).uid # proc[p].uid)
              => (key \in DOMAIN sessionCache' /\ sessionCache'[key] = sessionCache[key])]_vars

\* C37: a session that getSession hands to a request was created for the
\* request's own scope and its own normalized account pins, whatever
\* characters the user id and the account ids hold: requests that differ in
\* scope or pins never share a cache key.
C37_SessionOfOwnScopeAndPins ==
    \A p \in Procs :
        LET l == proc[p]
        IN (l.session # 0 /\ l.key \in DOMAIN hist) =>
             /\ hist[l.key].uid = l.uid
             /\ hist[l.key].pins = normalizeConnectedAccountsOverride(l.pins)

-----------------------------------------------------------------------------
(* C38: getSession calls for different keys (SpecSessions).                *)

\* The session cached under the key, 0 when there is none.
CachedAt(cache, key) == IF key \in DOMAIN cache THEN cache[key] ELSE 0

\* A create call of the request is answered with a session in this step.
CreateAnswered(p) ==
    /\ proc[p].pc \in {"awaitCreate", "awaitCreateRetry"}
    /\ proc'[p].session # 0

\* C38: in any interleaving, the create call of a getSession returns the
\* session the broker made for it, which is cached under the call's own key
\* while the entry of every other key stays as it was; and an entry changes
\* only when a create call for its own key is answered or a disconnect
\* evicts: getSession calls with different keys do not touch each other's
\* entries.
C38_DifferentKeysDoNotRace ==
    [][/\ \A p \in Procs :
            CreateAnswered(p) =>
                /\ nextSession' = nextSession + 1
                /\ proc'[p].session = nextSession'
                /\ CachedAt(sessionCache', proc[p].key) = proc'[p].session
                /\ \A key \in DOMAIN sessionCache :
                      key # proc[p].key
                      => (key \in DOMAIN sessionCache'
                          /\ sessionCache'[key] = sessionCache[key])
       /\ \A key \in DOMAIN sessionCache :
            CachedAt(sessionCache', key) # sessionCache[key]
            => \/ \E p \in Procs : CreateAnswered(p) /\ proc[p].key = key
               \/ \E p \in Procs : proc[p].pc = "awaitDelete" /\ proc'[p].pc = "done"]_vars

\* Two createConnection calls for different scopes overlapped: both missed
\* the cache, both created, and each awaits authorize on its own session.
C38_Witness ==
    /\ proc[1].pc = "awaitAuthorize" /\ proc[2].pc = "awaitAuthorize"
    /\ proc[1].key # proc[2].key
    /\ proc[1].createCalls >= 1 /\ proc[2].createCalls >= 1
    /\ CachedAt(sessionCache, proc[1].key) = proc[1].session
    /\ CachedAt(sessionCache, proc[2].key) = proc[2].session
    /\ proc[1].session # proc[2].session

-----------------------------------------------------------------------------
(* C39, C40: the session configuration sent (SpecConfig).                  *)

\* The toolRouter.create calls of the requests in flight.
CreateCallsSent ==
    UNION { { proc[p].sent[i] : i \in DOMAIN proc[p].sent } : p \in Procs }

\* C39: no configuration sent to toolRouter.create enables a toolkit that
\* isToolkitAllowed rejects; a toolkit both allow-listed and block-listed is
\* not in the enable list.
C39_EnablesOnlyAllowedToolkits ==
    \A call \in CreateCallsSent :
        call.config # None =>
            \A i \in DOMAIN call.config[1].toolkits.enable :
                isToolkitAllowed(config, call.config[1].toolkits.enable[i])

\* The toolkit of a tool slug: its token before the first "_", as a toolkit
\* slug.
ToolkitOfSlug(slug) == normalizeToolkitSlug(Split(slug, "_")[1])

\* The block-listed tool slugs whose toolkit policy allows.
BlockedSlugsOfAllowedToolkits ==
    { slug \in Elems(config.blockedToolSlugs) :
        isToolkitAllowed(config, ToolkitOfSlug(slug)) }

\* The tags a session is to carry.
TagsWanted ==
    Elems(config.sessionTags)
    \cup (IF config.readOnlyMode THEN { <<"r","e","a","d","O","n","l","y","H","i","n","t">> } ELSE {})

\* C40: the configuration of the first create call of a getSession (the one
\* built on the cache miss) carries as tags the configured behaviour tags
\* and readOnlyHint exactly when read-only mode is set, each once, and as
\* tools one entry per toolkit holding, once each, the block-listed slugs of
\* that toolkit when policy allows the toolkit, and nothing else; when no
\* directive at all results, no configuration is sent.
C40_TagsAndBlockedToolsSent ==
    \A p \in Procs :
        proc[p].sent # <<>> =>
            LET sent == proc[p].sent[1].config
            IN IF /\ TagsWanted = {} /\ BlockedSlugsOfAllowedToolkits = {}
                  /\ config.allowedToolkits = <<>> /\ config.blockedToolkits = <<>>
                  /\ proc[p].pins = <<>>
               THEN sent = None
               ELSE /\ sent # None
                    /\ Elems(sent[1].tags) = TagsWanted
                    /\ Len(sent[1].tags) = Cardinality(TagsWanted)
                    /\ \A slug \in BlockedSlugsOfAllowedToolkits :
                          \E i \in DOMAIN sent[1].tools :
                              /\ sent[1].tools[i].toolkit = ToolkitOfSlug(slug)
                              /\ slug \in Elems(sent[1].tools[i].disable)
                    /\ \A i \in DOMAIN sent[1].tools :
                          LET entry == sent[1].tools[i]
                          IN /\ entry.disable # <<>>
                             /\ Len(entry.disable) = Cardinality(Elems(entry.disable))
                             /\ \A slug \in Elems(entry.disable) :
                                   /\ slug \in BlockedSlugsOfAllowedToolkits
                                   /\ ToolkitOfSlug(slug) = entry.toolkit
                             /\ \A j \in DOMAIN sent[1].tools :
                                   sent[1].tools[j].toolkit = entry.toolkit => j = i

\* A read-only client with a behaviour tag and block-listed slugs of two
\* toolkits has sent both tags and both groups, the slug without a toolkit
\* and the repeated slug left out.
C40_Witness ==
    \E p \in Procs :
        /\ proc[p].sent # <<>>
        /\ config.readOnlyMode
        /\ proc[p].sent[1].config # None
        /\ Elems(proc[p].sent[1].config[1].tags) = { <<"d","e","s","t","r","u","c","t","i","v","e","H","i","n","t">>, <<"r","e","a","d","O","n","l","y","H","i","n","t">> }
        /\ proc[p].sent[1].config[1].tools =
              << [toolkit |-> <<"g","m">>, disable |-> <<<<"G","M","_","D","E","L","E","T","E","_","X">>, <<"G","M","_","G","E","T">>>>],
                 [toolkit |-> <<"s","n">>, disable |-> <<<<"S","N","_","S","E","N","D">>>>] >>

\* A client without any policy sends no configuration.
C40_WitnessNoConfig ==
    \E p \in Procs : proc[p].sent # <<>> /\ proc[p].sent[1].config = None

\* A slug whose toolkit is block-listed is left out of the tools sent.
C40_WitnessLeftOut ==
    \E p \in Procs :
        /\ proc[p].sent # <<>>
        /\ <<"G","M","_","D","E","L","E","T","E","_","X">> \in Elems(config.blockedToolSlugs)
        /\ ~isToolkitAllowed(config, <<"g","m">>)
        /\ proc[p].sent[1].config # None
        /\ \A i \in DOMAIN proc[p].sent[1].config[1].tools :
              proc[p].sent[1].config[1].tools[i].toolkit # <<"g","m">>

====
